---- MODULE Spec2Model ----
(***************************************************************************)
(* A model of the networking core of wormhole (src/src/network/mod.rs):    *)
(* the Message codec (to_bytes / from_bytes), the video-frame sender       *)
(* (send_video_frame), the fragment reassembly of the receiving node       *)
(* (FragmentBuffer, process_fragment), the peer table of NetworkNode and   *)
(* the tasks that feed it (net_recv_task in src/src/app.rs, run_discovery  *)
(* in src/src/network/discovery.rs, the main loop in src/src/main.rs),     *)
(* LAN discovery itself (DiscoveryMessage, get_broadcast_addresses, the    *)
(* select! loop of run_discovery, two such loops on one network), and the  *)
(* STUN client (discover_public_endpoint in src/src/network/stun.rs).      *)
(*                                                                         *)
(* Conventions.                                                            *)
(*  - A byte string (Vec<u8>, &[u8]) is a sequence of numbers 0..255.      *)
(*    The code indexes from 0, sequences from 1: At and Slice translate.   *)
(*  - A Rust String is the sequence of its UTF-8 bytes.                    *)
(*  - Option<T>: None is the record None; Some(v) is v itself.  A panic    *)
(*    (an index or slice bound outside the input) is the record Panic.     *)
(*  - usize is 64 bits wide: no sum of a u32 and an offset wraps.          *)
(*  - Instant::now() is the variable now, counted in whole seconds.        *)
(***************************************************************************)
EXTENDS Integers, Sequences, FiniteSets, TLC

VARIABLES
    \* codec harness: one encode / cut / decode experiment
    msg,               \* the Message given to to_bytes (NoMsg for a raw input)
    bytes,             \* the datagram: to_bytes(msg), possibly altered or cut
    decoded,           \* what from_bytes(bytes) returned (Pending before the call)
    cpc,               \* "start", "encoded", "decoded" (DiscoveryMessage: "dstart", ...)
    \* sender harness: one send_video_frame call
    call,              \* the arguments of the call
    sent,              \* the messages handed to send_to, in order
    send_result,       \* "Ok", "Err" ("pending" before the call)
    \* receiving node
    now,               \* the clock, in seconds
    fragment_buffers,  \* NetworkNode.fragment_buffers: key -> FragmentBuffer
    net,               \* the fragment datagrams the network may deliver
    last,              \* the last process_fragment call and what it returned
    runs,              \* per buffered key: what was delivered since the buffer was created
    finished,          \* keys whose frame was reassembled or whose buffer expired
    \* peer table
    node,              \* NetworkNode: name, local_addr, public_addr, peers, known_addrs, recently_left
    plast,             \* the last operation on the node or step of a task, and what it returned
    hist,              \* what has happened to each address so far (history, not program state)
    \* the application's tasks
    peer_event_rx,     \* channel net_recv_task -> main loop: PeerEvent
    discovery_rx,      \* channel run_discovery -> main loop: DiscoveredPeer
    net_rx,            \* channel net_recv_task -> main loop: Message
    mpc,               \* where the main loop is
    \* run_discovery
    disc,              \* Discovery: our_name, our_port, broadcast_addrs
    denv,              \* what Discovery::new finds: the interfaces, the bind address
    dpc,               \* where run_discovery is: "new", "select", "send", "reply", "done"
    dgram,             \* the datagram last read: buf[..len] and its source address
    pending,           \* what the loop made of it: the peer to emit, the address to reply to
    shutdown,          \* the watch channel: value, changed (not yet seen), closed
    rx_open,           \* the receiver of the DiscoveredPeer channel has not been dropped
    timers,            \* initial delay elapsed / initial announce done / interval tick due
    \* discover_public_endpoint
    stun_st,              \* where the loop over STUN_SERVERS is, the request's transaction id, the result
    stun_net,          \* responses on their way to the socket
    stun_sock,         \* the socket's receive queue
    \* two discovery nodes on one network
    pair_st,           \* each node's Discovery, what it has emitted and sent
    pair_wire          \* the discovery datagrams on their way

codec_vars == <<msg, bytes, decoded, cpc>>
send_vars == <<call, sent, send_result>>
node_vars == <<now, fragment_buffers, net, last, runs, finished>>
peer_vars == <<node, plast, hist>>
app_vars == <<peer_event_rx, discovery_rx, net_rx, mpc>>
disc_vars == <<disc, denv, dpc, dgram, pending, shutdown, rx_open, timers>>
stun_vars == <<stun_st, stun_net, stun_sock>>
pair_vars == <<pair_st, pair_wire>>
vars == <<codec_vars, send_vars, node_vars, peer_vars, app_vars, disc_vars, stun_vars, pair_vars>>

-----------------------------------------------------------------------------
(* Bytes and integers *)

None == [type |-> "None"]
Panic == [type |-> "Panic"]

Min(a, b) == IF a < b THEN a ELSE b

\* data[i] for a 0-based index inside the slice (0 otherwise: guarded by InB)
At(data, i) == IF i >= 0 /\ i < Len(data) THEN data[i + 1] ELSE 0

\* data[a..b] for bounds inside the slice (empty otherwise: guarded by InB)
Slice(data, a, b) == IF 0 <= a /\ a <= b /\ b <= Len(data) THEN SubSeq(data, a + 1, b) ELSE <<>>

\* every index below hi can be read from data
InB(data, hi) == hi <= Len(data)

Rep(n, b) == [i \in 1..n |-> b]

\* `x as u8`, `(x as u16).to_be_bytes()`, `(x as u32).to_be_bytes()`
AsU8(n) == n % 256
BE16(n) == <<(n \div 256) % 256, n % 256>>
BE32(n) == <<(n \div 16777216) % 256, (n \div 65536) % 256, (n \div 256) % 256, n % 256>>
LE32(n) == <<n % 256, (n \div 256) % 256, (n \div 65536) % 256, (n \div 16777216) % 256>>

\* u16::from_be_bytes at offset o
U16At(data, o) == At(data, o) * 256 + At(data, o + 1)

\* A u32 that is a value of a message (Ping.seq, Pong.seq) is the pair of its
\* 16-bit halves <<high, low>>: the checker's integers are 32 bits, signed.
U32Pair(data, o) == <<U16At(data, o), U16At(data, o + 2)>>
BE32Pair(q) == BE16(q[1]) \o BE16(q[2])

\* A u32 that is a length (u32::from_be_bytes(..) as usize, and the little-endian
\* size lz4_flex prepends).  A length of 2^30 or more is read as 2^30: no byte
\* string of the model is that long, so every comparison of a length with
\* data.len() or with an output size has the outcome it has in the code.
U32At(data, o) ==
    IF At(data, o) >= 64 THEN 1073741824
    ELSE At(data, o) * 16777216 + At(data, o + 1) * 65536 + At(data, o + 2) * 256 + At(data, o + 3)
U32LEAt(data, o) ==
    IF At(data, o + 3) >= 64 THEN 1073741824
    ELSE At(data, o) + At(data, o + 1) * 256 + At(data, o + 2) * 65536 + At(data, o + 3) * 16777216

-----------------------------------------------------------------------------
(* String::from_utf8_lossy: valid UTF-8 is kept, every maximal ill-formed  *)
(* prefix becomes U+FFFD (EF BF BD).                                       *)

IsCont(b) == b >= 128 /\ b <= 191

\* the number of bytes a well-formed sequence starting at 1-based p takes, 0 if ill-formed
Utf8SeqLen(s, p) ==
    LET b0 == s[p]
        b1 == IF p + 1 <= Len(s) THEN s[p + 1] ELSE 0
        b2 == IF p + 2 <= Len(s) THEN s[p + 2] ELSE 0
        b3 == IF p + 3 <= Len(s) THEN s[p + 3] ELSE 0
        second3 == CASE b0 = 224 -> b1 >= 160 /\ b1 <= 191
                     [] b0 = 237 -> b1 >= 128 /\ b1 <= 159
                     [] OTHER -> IsCont(b1)
        second4 == CASE b0 = 240 -> b1 >= 144 /\ b1 <= 191
                     [] b0 = 244 -> b1 >= 128 /\ b1 <= 143
                     [] OTHER -> IsCont(b1)
    IN  IF b0 < 128 THEN 1
        ELSE IF b0 >= 194 /\ b0 <= 223 THEN (IF IsCont(b1) THEN 2 ELSE 0)
        ELSE IF b0 >= 224 /\ b0 <= 239 THEN (IF second3 /\ IsCont(b2) THEN 3 ELSE 0)
        ELSE IF b0 >= 240 /\ b0 <= 244 THEN (IF second4 /\ IsCont(b2) /\ IsCont(b3) THEN 4 ELSE 0)
        ELSE 0

\* the length of the maximal ill-formed prefix at p (at least 1)
Utf8BadLen(s, p) ==
    LET b0 == s[p]
        b1 == IF p + 1 <= Len(s) THEN s[p + 1] ELSE 0
        b2 == IF p + 2 <= Len(s) THEN s[p + 2] ELSE 0
        second3 == CASE b0 = 224 -> b1 >= 160 /\ b1 <= 191
                     [] b0 = 237 -> b1 >= 128 /\ b1 <= 159
                     [] OTHER -> IsCont(b1)
        second4 == CASE b0 = 240 -> b1 >= 144 /\ b1 <= 191
                     [] b0 = 244 -> b1 >= 128 /\ b1 <= 143
                     [] OTHER -> IsCont(b1)
    IN  IF b0 >= 224 /\ b0 <= 239 /\ second3 THEN 2
        ELSE IF b0 >= 240 /\ b0 <= 244 /\ second4 THEN (IF IsCont(b2) THEN 3 ELSE 2)
        ELSE 1

RECURSIVE LossyFrom(_, _)
LossyFrom(s, p) ==
    IF p > Len(s) THEN <<>>
    ELSE LET n == Utf8SeqLen(s, p)
         IN  IF n > 0 THEN SubSeq(s, p, p + n - 1) \o LossyFrom(s, p + n)
             ELSE <<239, 191, 189>> \o LossyFrom(s, p + Utf8BadLen(s, p))

from_utf8_lossy(s) == IF \A i \in 1..Len(s) : s[i] < 128 THEN s ELSE LossyFrom(s, 1)

-----------------------------------------------------------------------------
(* lz4_flex, as the code uses it.  compress_prepend_size writes the        *)
(* uncompressed length as 4 little-endian bytes and then one LZ4 block.    *)
(* The block written here is the one the format has for data without       *)
(* repeats: a single sequence of literals (token, length extension bytes,  *)
(* the literals).  decompress_size_prepended reads any LZ4 block: literal  *)
(* runs and matches.                                                       *)

Lz4Err == [type |-> "Err"]

\* the extension bytes of a length whose 4-bit field is 15
Lz4LenExt(n) == IF n < 15 THEN <<>> ELSE Rep((n - 15) \div 255, 255) \o <<(n - 15) % 255>>

compress_prepend_size(pixels) ==
    LET n == Len(pixels)
    IN  LE32(n) \o <<Min(n, 15) * 16>> \o Lz4LenExt(n) \o pixels

\* the number of bytes equal to 255 from 1-based position p on
RECURSIVE Run255(_, _)
Run255(in, p) == IF p <= Len(in) /\ in[p] = 255 THEN 1 + Run255(in, p + 1) ELSE 0

\* a length field: nibble, extended from position p when it is 15.
\* [len, next] or Lz4Err when the input ends inside the extension
Lz4ReadLen(in, nibble, p) ==
    IF nibble < 15 THEN [type |-> "Len", len |-> nibble, next |-> p]
    ELSE LET r == Run255(in, p)
         IN  IF p + r > Len(in) THEN Lz4Err
             ELSE [type |-> "Len", len |-> 15 + 255 * r + in[p + r], next |-> p + r + 1]

\* out followed by mlen bytes copied from offset bytes back (the copy may overlap)
Lz4CopyMatch(out, offset, mlen) ==
    LET n == Len(out)
    IN  [k \in 1..(n + mlen) |-> IF k <= n THEN out[k] ELSE out[n - offset + 1 + ((k - n - 1) % offset)]]

\* decode the block in[p..] after out, into a buffer of `size` bytes
RECURSIVE Lz4Block(_, _, _, _)
Lz4Block(in, p, out, size) ==
    IF p > Len(in) THEN Lz4Err
    ELSE LET token == in[p]
             lit == Lz4ReadLen(in, token \div 16, p + 1)
         IN  IF lit.type = "Err" THEN Lz4Err
             ELSE IF lit.next + lit.len - 1 > Len(in) THEN Lz4Err
             ELSE IF Len(out) + lit.len > size THEN Lz4Err
             ELSE LET out1 == out \o SubSeq(in, lit.next, lit.next + lit.len - 1)
                      q == lit.next + lit.len
                  IN  IF q > Len(in) THEN [type |-> "Ok", data |-> out1]
                      ELSE IF q + 1 > Len(in) THEN Lz4Err
                      ELSE LET offset == in[q] + 256 * in[q + 1]
                               ml == Lz4ReadLen(in, token % 16, q + 2)
                           IN  IF offset = 0 \/ offset > Len(out1) THEN Lz4Err
                               ELSE IF ml.type = "Err" THEN Lz4Err
                               ELSE IF Len(out1) + ml.len + 4 > size THEN Lz4Err
                               ELSE Lz4Block(in, ml.next, Lz4CopyMatch(out1, offset, ml.len + 4), size)

\* Ok(data) or Err
decompress_size_prepended(input) ==
    IF Len(input) < 4 THEN Lz4Err
    ELSE Lz4Block(input, 5, <<>>, U32LEAt(input, 0))


-----------------------------------------------------------------------------
(* Message and its wire format *)

Chat(from, text) == [type |-> "Chat", from |-> from, text |-> text]
Ping(seq) == [type |-> "Ping", seq |-> seq]
Pong(seq) == [type |-> "Pong", seq |-> seq]
Join(name) == [type |-> "Join", name |-> name]
Leave(name) == [type |-> "Leave", name |-> name]
CallRequest(from) == [type |-> "CallRequest", from |-> from]
CallHangup(from) == [type |-> "CallHangup", from |-> from]
CallReject(from) == [type |-> "CallReject", from |-> from]
StreamFrame(from, lines) == [type |-> "StreamFrame", from |-> from, lines |-> lines]
VideoFrame(from, width, height, pixels) ==
    [type |-> "VideoFrame", from |-> from, width |-> width, height |-> height, pixels |-> pixels]
VideoFrameFragment(from, width, height, frame_id, fragment_idx, total_fragments, data) ==
    [type |-> "VideoFrameFragment", from |-> from, width |-> width, height |-> height,
     frame_id |-> frame_id, fragment_idx |-> fragment_idx,
     total_fragments |-> total_fragments, data |-> data]
DiscoveryAnnounce(name, port) == [type |-> "DiscoveryAnnounce", name |-> name, port |-> port]

\* a string behind its 1-byte length: buf.push(s.len() as u8); buf.extend(s.as_bytes())
PutName(s) == <<AsU8(Len(s))>> \o s

\* for line in lines { buf.extend((line.len() as u16).to_be_bytes()); buf.extend(line.as_bytes()) }
\* for the lines lo..hi, the loop's rounds grouped in halves
RECURSIVE PutLines(_, _, _)
PutLines(lines, lo, hi) ==
    IF lo > hi THEN <<>>
    ELSE IF lo = hi THEN BE16(Len(lines[lo])) \o lines[lo]
    ELSE LET mid == (lo + hi) \div 2
         IN  PutLines(lines, lo, mid) \o PutLines(lines, mid + 1, hi)

to_bytes(m) ==
    CASE m.type = "Chat" -> <<1>> \o PutName(m.from) \o BE16(Len(m.text)) \o m.text
      [] m.type = "Ping" -> <<2>> \o BE32Pair(m.seq)
      [] m.type = "Pong" -> <<3>> \o BE32Pair(m.seq)
      [] m.type = "Join" -> <<4>> \o PutName(m.name)
      [] m.type = "Leave" -> <<5>> \o PutName(m.name)
      [] m.type = "CallRequest" -> <<7>> \o PutName(m.from)
      [] m.type = "CallHangup" -> <<8>> \o PutName(m.from)
      [] m.type = "CallReject" -> <<9>> \o PutName(m.from)
      [] m.type = "StreamFrame" ->
            <<6>> \o PutName(m.from) \o <<AsU8(Len(m.lines))>> \o PutLines(m.lines, 1, Len(m.lines))
      [] m.type = "VideoFrame" ->
            LET compressed == compress_prepend_size(m.pixels)
            IN  <<10>> \o PutName(m.from) \o BE16(m.width) \o BE16(m.height)
                \o BE32(Len(m.pixels)) \o BE32(Len(compressed)) \o compressed
      [] m.type = "VideoFrameFragment" ->
            <<12>> \o PutName(m.from) \o BE16(m.width) \o BE16(m.height)
            \o <<m.frame_id, m.fragment_idx, m.total_fragments>>
            \o BE32(Len(m.data)) \o m.data
      [] m.type = "DiscoveryAnnounce" -> <<11>> \o BE16(m.port) \o PutName(m.name)

\* the tags 0x04, 0x05, 0x07, 0x08, 0x09: one length-prefixed name
DecodeNamed(data, type) ==
    IF Len(data) < 2 THEN None
    ELSE LET name_len == At(data, 1)
         IN  IF Len(data) < 2 + name_len THEN None
             ELSE IF ~InB(data, 2 + name_len) THEN Panic
             ELSE LET name == from_utf8_lossy(Slice(data, 2, 2 + name_len))
                  IN  IF type \in {"Join", "Leave"} THEN [type |-> type, name |-> name]
                      ELSE [type |-> type, from |-> name]

\* DecodeChat without the check of text_len against the remaining length
DecodeChat_NoTextCheck(data) ==
    IF Len(data) < 4 THEN None
    ELSE LET from_len == At(data, 1)
         IN  IF Len(data) < 2 + from_len + 2 THEN None
             ELSE IF ~InB(data, 4 + from_len) THEN Panic
             ELSE LET from == from_utf8_lossy(Slice(data, 2, 2 + from_len))
                      text_len == U16At(data, 2 + from_len)
                  IN  IF ~InB(data, 4 + from_len + text_len) THEN Panic
                      ELSE Chat(from, from_utf8_lossy(Slice(data, 4 + from_len, 4 + from_len + text_len)))

DecodeChat(data) ==
    IF Len(data) < 4 THEN None
    ELSE LET from_len == At(data, 1)
         IN  IF Len(data) < 2 + from_len + 2 THEN None
             ELSE IF ~InB(data, 4 + from_len) THEN Panic
             ELSE LET from == from_utf8_lossy(Slice(data, 2, 2 + from_len))
                      text_len == U16At(data, 2 + from_len)
                  IN  IF Len(data) < 4 + from_len + text_len THEN None
                      ELSE IF ~InB(data, 4 + from_len + text_len) THEN Panic
                      ELSE Chat(from, from_utf8_lossy(Slice(data, 4 + from_len, 4 + from_len + text_len)))

DecodeSeq(data, type) ==
    IF Len(data) < 5 THEN None
    ELSE IF ~InB(data, 5) THEN Panic
    ELSE [type |-> type, seq |-> U32Pair(data, 1)]

\* DecodeLine comparing the line length with the length before the 2-byte prefix
DecodeLine_StaleOffset(data, offset) ==
    IF Len(data) < offset + 2 THEN None
    ELSE IF ~InB(data, offset + 2) THEN Panic
    ELSE LET line_len == U16At(data, offset)
             start == offset + 2
         IN  IF Len(data) < offset + line_len THEN None
             ELSE IF ~InB(data, start + line_len) THEN Panic
             ELSE [type |-> "Lines", offset |-> start + line_len,
                   lines |-> <<from_utf8_lossy(Slice(data, start, start + line_len))>>]

\* one round of the loop `for _ in 0..num_lines` of the StreamFrame arm
DecodeLine(data, offset) ==
    IF Len(data) < offset + 2 THEN None
    ELSE IF ~InB(data, offset + 2) THEN Panic
    ELSE LET line_len == U16At(data, offset)
             start == offset + 2
         IN  IF Len(data) < start + line_len THEN None
             ELSE IF ~InB(data, start + line_len) THEN Panic
             ELSE [type |-> "Lines", offset |-> start + line_len,
                   lines |-> <<from_utf8_lossy(Slice(data, start, start + line_len))>>]

\* `count` rounds of the loop from `offset` on: the lines pushed and the offset
\* reached, or the None or the panic that ends the loop early.  The rounds are
\* grouped in halves, the second half starting where the first one stopped.
RECURSIVE DecodeLines(_, _, _)
DecodeLines(data, offset, count) ==
    IF count = 0 THEN [type |-> "Lines", offset |-> offset, lines |-> <<>>]
    ELSE IF count = 1 THEN DecodeLine(data, offset)
    ELSE LET a == DecodeLines(data, offset, count \div 2)
         IN  IF a.type # "Lines" THEN a
             ELSE LET b == DecodeLines(data, a.offset, count - count \div 2)
                  IN  IF b.type # "Lines" THEN b
                      ELSE [type |-> "Lines", offset |-> b.offset, lines |-> a.lines \o b.lines]

DecodeStreamFrame(data) ==
    IF Len(data) < 2 THEN None
    ELSE LET from_len == At(data, 1)
         IN  IF Len(data) < 2 + from_len + 1 THEN None
             ELSE IF ~InB(data, 2 + from_len + 1) THEN Panic
             ELSE LET r == DecodeLines(data, 2 + from_len + 1, At(data, 2 + from_len))
                  IN  IF r.type # "Lines" THEN r
                      ELSE StreamFrame(from_utf8_lossy(Slice(data, 2, 2 + from_len)), r.lines)

DecodeVideoFrame(data) ==
    IF Len(data) < 2 THEN None
    ELSE LET from_len == At(data, 1)
         IN  IF Len(data) < 2 + from_len + 12 THEN None
             ELSE IF ~InB(data, 2 + from_len + 12) THEN Panic
             ELSE LET from == from_utf8_lossy(Slice(data, 2, 2 + from_len))
                      width == U16At(data, 2 + from_len)
                      height == U16At(data, 4 + from_len)
                      compressed_len == U32At(data, 10 + from_len)
                      offset == 14 + from_len
                  IN  IF Len(data) < offset + compressed_len THEN None
                      ELSE IF ~InB(data, offset + compressed_len) THEN Panic
                      ELSE LET p == decompress_size_prepended(Slice(data, offset, offset + compressed_len))
                           IN  IF p.type = "Err" THEN None
                               ELSE VideoFrame(from, width, height, p.data)

DecodeDiscoveryAnnounce(data) ==
    IF Len(data) < 4 THEN None
    ELSE LET port == U16At(data, 1)
             name_len == At(data, 3)
         IN  IF Len(data) < 4 + name_len THEN None
             ELSE IF ~InB(data, 4 + name_len) THEN Panic
             ELSE DiscoveryAnnounce(from_utf8_lossy(Slice(data, 4, 4 + name_len)), port)

DecodeVideoFrameFragment(data) ==
    IF Len(data) < 2 THEN None
    ELSE LET from_len == At(data, 1)
         IN  IF Len(data) < 2 + from_len + 11 THEN None
             ELSE IF ~InB(data, 2 + from_len + 11) THEN Panic
             ELSE LET from == from_utf8_lossy(Slice(data, 2, 2 + from_len))
                      width == U16At(data, 2 + from_len)
                      height == U16At(data, 4 + from_len)
                      frame_id == At(data, 6 + from_len)
                      fragment_idx == At(data, 7 + from_len)
                      total_fragments == At(data, 8 + from_len)
                      data_len == U32At(data, 9 + from_len)
                      offset == 13 + from_len
                  IN  IF Len(data) < offset + data_len THEN None
                      ELSE IF ~InB(data, offset + data_len) THEN Panic
                      ELSE VideoFrameFragment(from, width, height, frame_id, fragment_idx,
                                              total_fragments, Slice(data, offset, offset + data_len))

\* a decoder that also takes the tag 0x0D for a Join
from_bytes_Tag0D(data) ==
    IF Len(data) = 0 THEN None
    ELSE CASE data[1] = 1 -> DecodeChat(data)
           [] data[1] = 2 -> DecodeSeq(data, "Ping")
           [] data[1] = 3 -> DecodeSeq(data, "Pong")
           [] data[1] = 4 -> DecodeNamed(data, "Join")
           [] data[1] = 5 -> DecodeNamed(data, "Leave")
           [] data[1] = 7 -> DecodeNamed(data, "CallRequest")
           [] data[1] = 8 -> DecodeNamed(data, "CallHangup")
           [] data[1] = 9 -> DecodeNamed(data, "CallReject")
           [] data[1] = 6 -> DecodeStreamFrame(data)
           [] data[1] = 10 -> DecodeVideoFrame(data)
           [] data[1] = 11 -> DecodeDiscoveryAnnounce(data)
           [] data[1] = 12 -> DecodeVideoFrameFragment(data)
           [] data[1] = 13 -> DecodeNamed(data, "Join")
           [] OTHER -> None

from_bytes(data) ==
    IF Len(data) = 0 THEN None
    ELSE CASE data[1] = 1 -> DecodeChat(data)
           [] data[1] = 2 -> DecodeSeq(data, "Ping")
           [] data[1] = 3 -> DecodeSeq(data, "Pong")
           [] data[1] = 4 -> DecodeNamed(data, "Join")
           [] data[1] = 5 -> DecodeNamed(data, "Leave")
           [] data[1] = 7 -> DecodeNamed(data, "CallRequest")
           [] data[1] = 8 -> DecodeNamed(data, "CallHangup")
           [] data[1] = 9 -> DecodeNamed(data, "CallReject")
           [] data[1] = 6 -> DecodeStreamFrame(data)
           [] data[1] = 10 -> DecodeVideoFrame(data)
           [] data[1] = 11 -> DecodeDiscoveryAnnounce(data)
           [] data[1] = 12 -> DecodeVideoFrameFragment(data)
           [] OTHER -> None


-----------------------------------------------------------------------------
(* DiscoveryMessage and its wire format (src/src/network/discovery.rs) *)

DISCOVERY_PORT == 7891
\* a magic whose first byte is the tag of Ping
MAGIC_PingTag == <<2, 67, 77, 83, 87, 82, 77, 72>>
MAGIC == <<65, 67, 77, 83, 87, 82, 77, 72>>       \* b"ACMSWRMH"

DiscoveryMessage(name, port) == [type |-> "DiscoveryMessage", name |-> name, port |-> port]

DiscoveryMessage_to_bytes(m) ==
    MAGIC \o BE16(m.port) \o <<AsU8(Len(m.name))>> \o m.name

\* a decoder that reads the port low byte first
DiscoveryMessage_from_bytes_LE(data) ==
    IF Len(data) < 11 \/ Slice(data, 0, 8) # MAGIC THEN None
    ELSE LET port == At(data, 9) * 256 + At(data, 8)
             name_len == At(data, 10)
         IN  IF Len(data) < 11 + name_len THEN None
             ELSE DiscoveryMessage(from_utf8_lossy(Slice(data, 11, 11 + name_len)), port)

\* a decoder that trusts the declared name length
DiscoveryMessage_from_bytes_NoLengthCheck(data) ==
    IF Len(data) < 11 \/ Slice(data, 0, 8) # MAGIC THEN None
    ELSE LET port == U16At(data, 8)
             name_len == At(data, 10)
         IN  IF ~InB(data, 11 + name_len) THEN Panic
             ELSE DiscoveryMessage(from_utf8_lossy(Slice(data, 11, 11 + name_len)), port)

DiscoveryMessage_from_bytes(data) ==
    IF Len(data) < 11 \/ Slice(data, 0, 8) # MAGIC THEN None
    ELSE LET port == U16At(data, 8)
             name_len == At(data, 10)
         IN  IF Len(data) < 11 + name_len THEN None
             ELSE IF ~InB(data, 11 + name_len) THEN Panic
             ELSE DiscoveryMessage(from_utf8_lossy(Slice(data, 11, 11 + name_len)), port)


-----------------------------------------------------------------------------
(* The codec harness: encode a message, possibly alter or cut the          *)
(* datagram, decode it.                                                    *)

MaxCorruptLen == 14   \* datagrams up to this length also get one byte overwritten
MaxRawLen == 3        \* raw inputs: a tag byte and up to this many further bytes

NoMsg == [type |-> "NoMsg"]
Pending == [type |-> "Pending"]
EmptyMap == [k \in {} |-> None]

S_Al == <<65, 108>>          \* "Al"
S_Bob == <<66, 111, 98>>     \* "Bob"
S_Hi == <<72, 105>>          \* "Hi"
S_eacute == <<195, 169>>     \* "e" with an acute accent, two bytes of UTF-8
Names == {<<>>, S_Al, S_eacute, Rep(255, 97), Rep(256, 97)}
ShortNames == {<<>>, S_Al}

TestMessages ==
    {Chat(f, t) : f \in Names, t \in {<<>>, S_Hi, S_eacute}}
    \cup {Ping(q) : q \in {<<0, 0>>, <<0, 42>>, <<65535, 65535>>}}
    \cup {Pong(q) : q \in {<<0, 0>>, <<0, 42>>, <<65535, 65535>>}}
    \cup {Join(n) : n \in Names} \cup {Leave(n) : n \in Names}
    \cup {CallRequest(n) : n \in Names} \cup {CallHangup(n) : n \in Names}
    \cup {CallReject(n) : n \in Names}
    \cup {StreamFrame(f, l) : f \in ShortNames,
                              l \in {<<>>, <<S_Hi>>, <<<<>>, S_eacute>>, Rep(255, <<>>), Rep(256, <<>>)}}
    \cup {VideoFrame(f, wh[1], wh[2], px) : f \in {S_Bob, Rep(256, 97)}, wh \in {<<80, 44>>, <<65535, 0>>},
                                            px \in {<<>>, <<0, 128, 255, 64, 192>>, Rep(20, 7)}}
    \cup {VideoFrameFragment(f, 80, 44, 255, i, 2, d) : f \in {S_Al, Rep(256, 97)}, i \in {0, 1},
                                                      d \in {<<>>, <<1, 2, 3>>}}
    \cup {DiscoveryAnnounce(n, pt) : n \in {<<>>, S_Al, Rep(256, 97)}, pt \in {0, 7890, 65535}}

\* the DiscoveryMessages encoded and decoded
DiscoveryTestMessages == {DiscoveryMessage(n, pt) : n \in Names, pt \in {0, 7890, 65535}}

\* every field of m fits the length prefix the wire format gives it
FitsWire(m) ==
    /\ "from" \in DOMAIN m => Len(m.from) <= 255
    /\ "name" \in DOMAIN m => Len(m.name) <= 255
    /\ "text" \in DOMAIN m => Len(m.text) <= 65535
    /\ "lines" \in DOMAIN m => Len(m.lines) <= 255 /\ \A i \in 1..Len(m.lines) : Len(m.lines[i]) <= 65535

RawTail == {0, 1, 255}
RECURSIVE RawTails(_)
RawTails(n) == IF n = 0 THEN {<<>>} ELSE LET r == RawTails(n - 1) IN r \cup {Append(t, b) : t \in {x \in r : Len(x) = n - 1}, b \in RawTail}
RawInputs == {<<>>} \cup {<<tag>> \o t : tag \in 0..255, t \in RawTails(MaxRawLen)}

IdleSend == call = NoMsg /\ sent = <<>> /\ send_result = "idle"
IdleNode == now = 0 /\ fragment_buffers = EmptyMap /\ net = {} /\ last = NoMsg /\ runs = EmptyMap /\ finished = {}
IdleApp == peer_event_rx = <<>> /\ discovery_rx = <<>> /\ net_rx = <<>> /\ mpc = "idle"
IdleStun == stun_st = None /\ stun_net = {} /\ stun_sock = <<>>
IdlePair == pair_st = None /\ pair_wire = {}
IdleDisc ==
    /\ disc = None /\ denv = None /\ dpc = "idle" /\ dgram = NoMsg /\ pending = None
    /\ shutdown = None /\ rx_open = TRUE /\ timers = None
IdlePeers == node = None /\ plast = NoMsg /\ hist = None /\ IdleApp /\ IdleDisc

CodecInit ==
    /\ \/ msg \in TestMessages /\ cpc = "start" /\ bytes = <<>>
       \/ msg = NoMsg /\ cpc = "encoded" /\ bytes \in RawInputs
       \/ msg \in DiscoveryTestMessages /\ cpc = "dstart" /\ bytes = <<>>
    /\ decoded = Pending
    /\ IdleStun /\ IdlePair /\ IdleSend /\ IdleNode /\ IdlePeers

Encode ==
    /\ cpc = "start"
    /\ bytes' = to_bytes(msg)
    /\ cpc' = "encoded"
    /\ UNCHANGED <<msg, decoded, send_vars, stun_vars, pair_vars, node_vars, peer_vars, app_vars, disc_vars>>

\* the datagram arrives with one byte changed
Corrupt ==
    /\ cpc = "encoded" /\ msg # NoMsg
    /\ Len(bytes) <= MaxCorruptLen /\ bytes = to_bytes(msg)
    /\ \E p \in 1..Len(bytes), v \in {0, 1, 2, 255} : v # bytes[p] /\ bytes' = [bytes EXCEPT ![p] = v]
    /\ UNCHANGED <<msg, decoded, cpc, send_vars, stun_vars, pair_vars, node_vars, peer_vars, app_vars, disc_vars>>

\* the datagram arrives cut short
Truncate ==
    /\ cpc = "encoded" /\ msg # NoMsg
    /\ Len(bytes) = Len(to_bytes(msg))
    /\ \E k \in 0..(Len(bytes) - 1) : bytes' = SubSeq(bytes, 1, k)
    /\ UNCHANGED <<msg, decoded, cpc, send_vars, stun_vars, pair_vars, node_vars, peer_vars, app_vars, disc_vars>>

\* the datagram arrives with bytes after the end of the encoding
Trailers == {<<0>>, <<255>>, <<1, 2>>}

Extend ==
    /\ cpc = "encoded" /\ msg # NoMsg
    /\ bytes = to_bytes(msg)
    /\ \E t \in Trailers : bytes' = bytes \o t
    /\ UNCHANGED <<msg, decoded, cpc, send_vars, stun_vars, pair_vars, node_vars, peer_vars, app_vars, disc_vars>>

Decode ==
    /\ cpc = "encoded"
    /\ decoded' = from_bytes(bytes)
    /\ cpc' = "decoded"
    /\ UNCHANGED <<msg, bytes, send_vars, stun_vars, pair_vars, node_vars, peer_vars, app_vars, disc_vars>>

\* DiscoveryMessage::to_bytes, then DiscoveryMessage::from_bytes of the result
EncodeDiscovery ==
    /\ cpc = "dstart"
    /\ bytes' = DiscoveryMessage_to_bytes(msg)
    /\ cpc' = "dencoded"
    /\ UNCHANGED <<msg, decoded, send_vars, stun_vars, pair_vars, node_vars, peer_vars, app_vars, disc_vars>>

DecodeDiscovery ==
    /\ cpc = "dencoded"
    /\ decoded' = DiscoveryMessage_from_bytes(bytes)
    /\ cpc' = "ddecoded"
    /\ UNCHANGED <<msg, bytes, send_vars, stun_vars, pair_vars, node_vars, peer_vars, app_vars, disc_vars>>

\* the discovery packet arrives with one byte changed
CorruptDiscovery ==
    /\ cpc = "dencoded"
    /\ Len(bytes) <= MaxCorruptLen /\ bytes = DiscoveryMessage_to_bytes(msg)
    /\ \E p \in 1..Len(bytes), v \in {0, 1, 2, 255} : v # bytes[p] /\ bytes' = [bytes EXCEPT ![p] = v]
    /\ UNCHANGED <<msg, decoded, cpc, send_vars, stun_vars, pair_vars, node_vars, peer_vars, app_vars, disc_vars>>

\* the discovery packet arrives cut short
TruncateDiscovery ==
    /\ cpc = "dencoded"
    /\ bytes = DiscoveryMessage_to_bytes(msg)
    /\ \E k \in 0..(Len(bytes) - 1) : bytes' = SubSeq(bytes, 1, k)
    /\ UNCHANGED <<msg, decoded, cpc, send_vars, stun_vars, pair_vars, node_vars, peer_vars, app_vars, disc_vars>>

\* a datagram of the data port reaches the discovery socket: run_discovery
\* hands it to DiscoveryMessage::from_bytes
DecodeAsDiscovery ==
    /\ cpc = "encoded"
    /\ decoded' = DiscoveryMessage_from_bytes(bytes)
    /\ cpc' = "xddecoded"
    /\ UNCHANGED <<msg, bytes, send_vars, stun_vars, pair_vars, node_vars, peer_vars, app_vars, disc_vars>>

\* a discovery packet reaches the data socket: recv hands it to
\* Message::from_bytes
DecodeAsMessage ==
    /\ cpc = "dencoded"
    /\ decoded' = from_bytes(bytes)
    /\ cpc' = "xdecoded"
    /\ UNCHANGED <<msg, bytes, send_vars, stun_vars, pair_vars, node_vars, peer_vars, app_vars, disc_vars>>

CodecNext ==
    \/ Encode \/ Corrupt \/ Truncate \/ Extend \/ Decode
    \/ EncodeDiscovery \/ DecodeDiscovery
    \/ CorruptDiscovery \/ TruncateDiscovery \/ DecodeAsDiscovery \/ DecodeAsMessage

CodecSpec == CodecInit /\ [][CodecNext]_vars

\* the datagram is a strict prefix of the encoding of msg
IsCut == msg # NoMsg /\ Len(bytes) < Len(to_bytes(msg)) /\ bytes = SubSeq(to_bytes(msg), 1, Len(bytes))
IsWhole == msg # NoMsg /\ bytes = to_bytes(msg)
\* the datagram is the encoding of msg followed by at least one more byte
IsExtended ==
    /\ msg # NoMsg /\ Len(bytes) > Len(to_bytes(msg))
    /\ SubSeq(bytes, 1, Len(to_bytes(msg))) = to_bytes(msg)


\* C1: for every Message m, from_bytes(to_bytes(m)) is Some of a value equal
\* to m in every field.
C1_RoundTrip == (cpc = "decoded" /\ IsWhole) => decoded = msg

\* (the round trip of the messages whose fields fit their length prefixes)
RoundTripFits == (cpc = "decoded" /\ IsWhole /\ FitsWire(msg)) => decoded = msg

\* C2: from_bytes of a strict prefix of a valid encoding (the encoding of a
\* message whose fields fit their length prefixes) is None, at every cut.
C2_CutIsNone == (cpc = "decoded" /\ IsCut /\ FitsWire(msg)) => decoded = None

\* a Chat cut inside the 2-byte length of its text, after a non-empty name
C2_Witness ==
    /\ cpc = "decoded" /\ IsCut /\ FitsWire(msg)
    /\ msg.type = "Chat" /\ Len(msg.from) > 0 /\ Len(msg.text) > 0
    /\ Len(bytes) = 2 + Len(msg.from) + 1
    /\ decoded = None

\* C3: whatever the input, from_bytes reads no index and no slice bound
\* outside it (it does not panic).
C3_InBounds == cpc = "decoded" => decoded # Panic

\* a StreamFrame that declares 255 lines was decoded through all 255 rounds
C3_Witness ==
    /\ cpc = "decoded" /\ Len(bytes) > 0 /\ bytes[1] = 6
    /\ At(bytes, 2 + At(bytes, 1)) = 255
    /\ decoded.type = "StreamFrame" /\ Len(decoded.lines) = 255

\* C28: from_bytes is None for every input whose length is not the length
\* its tag and length prefixes imply: an encoding cut short, and an encoding
\* followed by one or more trailing bytes.
C28_LengthMismatchIsNone ==
    (cpc = "decoded" /\ FitsWire(msg) /\ (IsCut \/ IsExtended)) => decoded = None

\* the tags of the wire table
WireTable ==
    [Chat |-> 1, Ping |-> 2, Pong |-> 3, Join |-> 4, Leave |-> 5, StreamFrame |-> 6,
     CallRequest |-> 7, CallHangup |-> 8, CallReject |-> 9, VideoFrame |-> 10,
     DiscoveryAnnounce |-> 11, VideoFrameFragment |-> 12]

\* C29: the first byte of to_bytes(m) is the tag the wire table gives m's
\* variant; whatever from_bytes decodes is of the variant of the input's first
\* byte; the empty input and an input whose first byte is none of 0x01..0x0C
\* decode to None.
C29_TagTable ==
    /\ (cpc \in {"encoded", "decoded"} /\ IsWhole) => bytes[1] = WireTable[msg.type]
    /\ cpc = "decoded" =>
          /\ (bytes = <<>> \/ bytes[1] \notin 1..12) => decoded = None
          /\ decoded # None =>
                decoded.type \in DOMAIN WireTable /\ WireTable[decoded.type] = bytes[1]

\* a VideoFrameFragment went through: tag 0x0C out, the same variant back
C29_Witness ==
    /\ cpc = "decoded" /\ IsWhole
    /\ msg.type = "VideoFrameFragment" /\ bytes[1] = 12
    /\ decoded.type = "VideoFrameFragment"

DiscoveryRoundTripFits ==
    (cpc = "ddecoded" /\ FitsWire(msg)) =>
        /\ decoded = msg
        /\ bytes = MAGIC \o <<msg.port \div 256, msg.port % 256, Len(msg.name)>> \o msg.name

-----------------------------------------------------------------------------
(* send_video_frame *)

MAX_FRAGMENT_SIZE == 1400

DivCeil(a, b) == (a + b - 1) \div b

\* Chunks without the last, shorter slice
Chunks_Floor(c, size) ==
    [i \in 1..(Len(c) \div size) |-> SubSeq(c, (i - 1) * size + 1, i * size)]

\* c.chunks(size): consecutive slices of `size` bytes, the last one shorter
Chunks(c, size) ==
    LET n == Len(c)
    IN  [i \in 1..DivCeil(n, size) |-> SubSeq(c, (i - 1) * size + 1, Min(i * size, n))]

\* The pixel buffer of a call is named by its length and a seed: px = <<len, seed>>.
Pixels(px) == [i \in 1..px[1] |-> (i * 7 + px[2]) % 256]

\* the sends `self.send_to(&msg, addr).await?` of msgs in order; the socket
\* fails at the send number fail_at (counted from 0; -1: no send fails).
\* A message is in msgs of the result when its datagram was sent.
send_to_all(msgs, fail_at) ==
    IF fail_at >= 0 /\ fail_at < Len(msgs)
    THEN [result |-> "Err: socket", msgs |-> SubSeq(msgs, 1, fail_at)]
    ELSE [result |-> "Ok", msgs |-> msgs]

\* send_video_frame refusing only more than 256 fragments
send_video_frame_Limit256(from, width, height, pixels, frame_id, fail_at) ==
    LET compressed == compress_prepend_size(pixels)
    IN  IF Len(compressed) <= MAX_FRAGMENT_SIZE
        THEN send_to_all(<<VideoFrameFragment(from, width, height, frame_id, 0, 1, compressed)>>, fail_at)
        ELSE LET total_fragments == DivCeil(Len(compressed), MAX_FRAGMENT_SIZE)
                 chunks == Chunks(compressed, MAX_FRAGMENT_SIZE)
             IN  IF total_fragments > 256
                 THEN [result |-> "Err: Frame too large to fragment", msgs |-> <<>>]
                 ELSE send_to_all([i \in 1..Len(chunks) |->
                                      VideoFrameFragment(from, width, height, frame_id,
                                                         AsU8(i - 1), AsU8(total_fragments), chunks[i])],
                                  fail_at)

send_video_frame(from, width, height, pixels, frame_id, fail_at) ==
    LET compressed == compress_prepend_size(pixels)
    IN  IF Len(compressed) <= MAX_FRAGMENT_SIZE
        THEN send_to_all(<<VideoFrameFragment(from, width, height, frame_id, 0, 1, compressed)>>, fail_at)
        ELSE LET total_fragments == DivCeil(Len(compressed), MAX_FRAGMENT_SIZE)
                 chunks == Chunks(compressed, MAX_FRAGMENT_SIZE)
             IN  IF total_fragments > 255
                 THEN [result |-> "Err: Frame too large to fragment", msgs |-> <<>>]
                 ELSE send_to_all([i \in 1..Len(chunks) |->
                                      VideoFrameFragment(from, width, height, frame_id,
                                                         AsU8(i - 1), AsU8(total_fragments), chunks[i])],
                                  fail_at)

SendCall(from, width, height, px, frame_id, fail_at) ==
    [type |-> "SendCall", from |-> from, width |-> width, height |-> height,
     px |-> px, frame_id |-> frame_id, fail_at |-> fail_at]

SendOf(c) == send_video_frame(c.from, c.width, c.height, Pixels(c.px), c.frame_id, c.fail_at)

\* pixel-buffer lengths and the compressed lengths L they give:
\* 0 -> 5, 5 -> 10, 1389 -> 1400, 1390 -> 1401, 2785 -> 2801 (3 chunks),
\* 5580 -> 5607 (5 chunks), 49799 -> 50000 (36 chunks),
\* 355600 -> 357000 (255 chunks), 355601 -> 357001 (256 chunks)
SmallLens == {0, 5, 1389, 1390, 2785}
LargeLens == {5580, 49799, 355600, 355601}

SendCalls ==
    {SendCall(f, wh[1], wh[2], <<n, 3>>, id, fa) :
        f \in {<<65>>, S_Bob}, wh \in {<<80, 44>>, <<0, 65535>>}, n \in SmallLens,
        id \in {0, 255}, fa \in {-1, 0, 1}}
    \cup {SendCall(S_Bob, 80, 44, <<n, 0>>, 7, -1) : n \in LargeLens}

IdleCodec == msg = NoMsg /\ bytes = <<>> /\ decoded = Pending /\ cpc = "idle"

SendInit ==
    /\ call \in SendCalls /\ sent = <<>> /\ send_result = "pending"
    /\ IdleStun /\ IdlePair /\ IdleCodec /\ IdleNode /\ IdlePeers

SendVideoFrame ==
    /\ send_result = "pending"
    /\ LET r == SendOf(call)
       IN  sent' = r.msgs /\ send_result' = r.result
    /\ UNCHANGED <<call, codec_vars, stun_vars, pair_vars, node_vars, peer_vars, app_vars, disc_vars>>

SendNext == SendVideoFrame

SendSpec == SendInit /\ [][SendNext]_vars


-----------------------------------------------------------------------------
(* FragmentBuffer and NetworkNode::process_fragment *)

FRAGMENT_TTL == 2   \* Duration::from_secs(2)

Some(v) == [type |-> "Some", v |-> v]

\* FragmentBuffer::new at time t
FragmentBuffer_new(from, width, height, frame_id, total_fragments, t) ==
    [from |-> from, width |-> width, height |-> height, frame_id |-> frame_id,
     total_fragments |-> total_fragments,
     fragments |-> [i \in 1..total_fragments |-> None],
     received_at |-> t]

\* add_fragment growing the slot array up to the index it is given
add_fragment_Grow(buf, idx, data) ==
    LET n == Len(buf.fragments)
        slots == IF idx < n THEN buf.fragments
                 ELSE [i \in 1..(idx + 1) |-> IF i <= n THEN buf.fragments[i] ELSE None]
    IN  [buf EXCEPT !.fragments = [slots EXCEPT ![idx + 1] = Some(data)]]

\* add_fragment putting a fragment whose slot is taken into the first free slot
add_fragment_FirstFree(buf, idx, data) ==
    LET n == Len(buf.fragments)
        free == {i \in 1..n : buf.fragments[i] = None}
    IN  IF idx >= n THEN buf
        ELSE IF buf.fragments[idx + 1] = None \/ free = {}
             THEN [buf EXCEPT !.fragments[idx + 1] = Some(data)]
             ELSE [buf EXCEPT !.fragments[CHOOSE i \in free : \A j \in free : i <= j] = Some(data)]

add_fragment(buf, idx, data) ==
    IF idx < Len(buf.fragments)
    THEN [buf EXCEPT !.fragments[idx + 1] = Some(data)]
    ELSE buf

is_complete(buf) == \A i \in 1..Len(buf.fragments) : buf.fragments[i] # None

\* Flatten joining the slots from the last to the first
RECURSIVE Flatten_Reversed(_, _, _)
Flatten_Reversed(fragments, lo, hi) ==
    IF lo > hi THEN <<>>
    ELSE IF lo = hi THEN (IF fragments[lo] = None THEN <<>> ELSE fragments[lo].v)
    ELSE LET mid == (lo + hi) \div 2
         IN  Flatten_Reversed(fragments, mid + 1, hi) \o Flatten_Reversed(fragments, lo, mid)

\* fragments.iter().filter_map(|f| f.as_ref()).flatten(): the data of the
\* filled slots lo..hi in index order (the slots grouped in halves)
RECURSIVE Flatten(_, _, _)
Flatten(fragments, lo, hi) ==
    IF lo > hi THEN <<>>
    ELSE IF lo = hi THEN (IF fragments[lo] = None THEN <<>> ELSE fragments[lo].v)
    ELSE LET mid == (lo + hi) \div 2
         IN  Flatten(fragments, lo, mid) \o Flatten(fragments, mid + 1, hi)

\* Option<Vec<u8>>
reassemble(buf) ==
    IF ~is_complete(buf) THEN None
    ELSE LET r == decompress_size_prepended(Flatten(buf.fragments, 1, Len(buf.fragments)))
         IN  IF r.type = "Ok" THEN Some(r.data) ELSE None

Key(from, frame_id) == <<from, frame_id>>

\* Retain keeping a buffer that is exactly FRAGMENT_TTL old
Retain_Inclusive(buffers, t) ==
    [k \in {x \in DOMAIN buffers : t - buffers[x].received_at <= FRAGMENT_TTL} |-> buffers[k]]

\* Retain removing nothing
Retain_All(buffers, t) == buffers

\* fragment_buffers.retain(|_, buf| now.duration_since(buf.received_at) < 2 s)
Retain(buffers, t) ==
    [k \in {x \in DOMAIN buffers : t - buffers[x].received_at < FRAGMENT_TTL} |-> buffers[k]]

\* buffers with key k bound to buf
Put(buffers, k, buf) == [x \in DOMAIN buffers \cup {k} |-> IF x = k THEN buf ELSE buffers[x]]
Remove(buffers, k) == [x \in DOMAIN buffers \ {k} |-> buffers[x]]

\* process_fragment leaving the completed buffer in the map
process_fragment_KeepBuffer(buffers, t, from, width, height, frame_id, fragment_idx, total_fragments, data) ==
    LET kept == Retain(buffers, t)
        key == Key(from, frame_id)
        entry == IF key \in DOMAIN kept THEN kept[key]
                 ELSE FragmentBuffer_new(from, width, height, frame_id, total_fragments, t)
        buffer == add_fragment(entry, fragment_idx, data)
        pixels == reassemble(buffer)
    IN  IF is_complete(buffer) /\ pixels # None
        THEN [buffers |-> Put(kept, key, buffer), result |-> VideoFrame(from, width, height, pixels.v)]
        ELSE [buffers |-> Put(kept, key, buffer), result |-> None]

\* process_fragment purging only the buffer of the key it is called for
process_fragment_PurgeOwnKey(buffers, t, from, width, height, frame_id, fragment_idx, total_fragments, data) ==
    LET key == Key(from, frame_id)
        kept == IF key \in DOMAIN buffers /\ t - buffers[key].received_at >= FRAGMENT_TTL
                THEN Remove(buffers, key) ELSE buffers
        entry == IF key \in DOMAIN kept THEN kept[key]
                 ELSE FragmentBuffer_new(from, width, height, frame_id, total_fragments, t)
        buffer == add_fragment(entry, fragment_idx, data)
        pixels == reassemble(buffer)
    IN  IF is_complete(buffer) /\ pixels # None
        THEN [buffers |-> Remove(kept, key), result |-> VideoFrame(from, width, height, pixels.v)]
        ELSE [buffers |-> Put(kept, key, buffer), result |-> None]

\* process_fragment with room for one frame: the buffer of the key it is called
\* for is the only one it keeps
process_fragment_OneFrame(buffers, t, from, width, height, frame_id, fragment_idx, total_fragments, data) ==
    LET kept == Retain(buffers, t)
        key == Key(from, frame_id)
        entry == IF key \in DOMAIN kept THEN kept[key]
                 ELSE FragmentBuffer_new(from, width, height, frame_id, total_fragments, t)
        buffer == add_fragment(entry, fragment_idx, data)
        pixels == reassemble(buffer)
    IN  IF is_complete(buffer) /\ pixels # None
        THEN [buffers |-> EmptyMap, result |-> VideoFrame(from, width, height, pixels.v)]
        ELSE [buffers |-> Put(EmptyMap, key, buffer), result |-> None]

\* the call at time t on the map `buffers`: the map it leaves and what it returns
process_fragment(buffers, t, from, width, height, frame_id, fragment_idx, total_fragments, data) ==
    LET kept == Retain(buffers, t)
        key == Key(from, frame_id)
        entry == IF key \in DOMAIN kept THEN kept[key]
                 ELSE FragmentBuffer_new(from, width, height, frame_id, total_fragments, t)
        buffer == add_fragment(entry, fragment_idx, data)
        pixels == reassemble(buffer)
    IN  IF is_complete(buffer) /\ pixels # None
        THEN [buffers |-> Remove(kept, key), result |-> VideoFrame(from, width, height, pixels.v)]
        ELSE [buffers |-> Put(kept, key, buffer), result |-> None]


-----------------------------------------------------------------------------
(* The receiving node.  The network holds the fragments of the frames that  *)
(* peers have sent (net) and hands any of them to process_fragment at any   *)
(* time, in any order, any number of times, or never (UDP).                 *)

MaxTime == 2   \* the clock runs from 0 to MaxTime seconds

\* a datagram of the network: the message and the send_video_frame call it
\* comes from (NoMsg for a fragment no send_video_frame call produced)
FragmentsOf(c) ==
    LET msgs == SendOf(c).msgs
    IN  {[m |-> msgs[i], of |-> c] : i \in 1..Len(msgs)}
Stray(m) == [m |-> m, of |-> NoMsg]

NameA == <<65>>
NameB == <<66>>
Frame1 == SendCall(NameB, 80, 44, <<5, 3>>, 255, -1)      \* 1 fragment
Frame2 == SendCall(NameB, 40, 22, <<1390, 3>>, 0, -1)     \* 2 fragments
Frame3 == SendCall(NameA, 80, 44, <<2785, 3>>, 0, -1)     \* 3 fragments
Frame5 == SendCall(NameA, 80, 44, <<5580, 0>>, 7, -1)     \* 5 fragments
Frame2a == SendCall(NameA, 40, 22, <<1390, 1>>, 0, -1)    \* 2 fragments, the frame_id of Frame2
Frame1b == SendCall(NameB, 80, 44, <<5, 1>>, 0, -1)       \* 1 fragment, the key of Frame2

\* fragments that fit no frame: an index past the total, a total of 0, data
\* that is no LZ4 block, a second total for a key
Strays ==
    {Stray(VideoFrameFragment(NameB, 80, 44, 9, 3, 2, <<1>>)),
     Stray(VideoFrameFragment(NameB, 80, 44, 9, 0, 0, <<1>>)),
     Stray(VideoFrameFragment(NameB, 80, 44, 9, 0, 1, <<9, 9>>)),
     Stray(VideoFrameFragment(NameB, 80, 44, 9, 1, 2, <<>>))}

Workloads ==
    {FragmentsOf(Frame3),
     FragmentsOf(Frame5),
     FragmentsOf(Frame1) \cup FragmentsOf(Frame2),
     FragmentsOf(Frame2) \cup FragmentsOf(Frame1b),
     FragmentsOf(Frame2) \cup FragmentsOf(Frame2a),
     Strays \cup FragmentsOf(Frame1)}

AllKeys == {Key(e.m.from, e.m.frame_id) : e \in UNION Workloads}

NodeInit ==
    /\ net \in Workloads
    /\ now = 0 /\ fragment_buffers = EmptyMap /\ last = NoMsg /\ runs = EmptyMap /\ finished = {}
    /\ IdleStun /\ IdlePair /\ IdleCodec /\ IdleSend /\ IdlePeers

\* the buffer of key k is in the map and was created FRAGMENT_TTL or more ago
Stale(k) == k \in DOMAIN fragment_buffers /\ now - fragment_buffers[k].received_at >= FRAGMENT_TTL

\* The network delivers e and the node calls process_fragment with its fields.
\* runs, finished and last record what was delivered (they change nothing in the node):
\*  runs[k]  for the buffer of key k: the call `of` its first fragment came from, the
\*           total it was created with, the indices delivered to it (idxs), whether
\*           every delivery was a fragment of `of` not delivered before (pure),
\*           whether the indices came in descending order (desc), and the indices
\*           that had been delivered to the buffer of k that expired just before (before)
\*  finished the keys whose frame was returned or whose buffer was purged
\*  last     the call: its key and arguments, the time, what it returned, what it
\*           found for its key (had), whether its key was finished before (late),
\*           and the run of its key after the call
Deliver ==
    \E e \in net :
        LET m == e.m
            k == Key(m.from, m.frame_id)
            had == IF k \notin DOMAIN fragment_buffers THEN "none"
                   ELSE IF Stale(k) THEN "expired" ELSE "live"
            r == process_fragment(fragment_buffers, now, m.from, m.width, m.height,
                                  m.frame_id, m.fragment_idx, m.total_fragments, m.data)
            purged == {x \in DOMAIN fragment_buffers : Stale(x)}
            run == IF had = "live"
                   THEN [runs[k] EXCEPT !.idxs = @ \cup {m.fragment_idx},
                                        !.pure = @ /\ e.of = runs[k].of /\ m.fragment_idx \notin runs[k].idxs,
                                        !.desc = @ /\ \A i \in runs[k].idxs : m.fragment_idx < i]
                   ELSE [of |-> e.of, total |-> m.total_fragments, idxs |-> {m.fragment_idx},
                         pure |-> e.of # NoMsg, desc |-> TRUE,
                         before |-> IF had = "expired" THEN runs[k].idxs ELSE {}]
        IN  /\ fragment_buffers' = r.buffers
            /\ runs' = [x \in DOMAIN r.buffers |-> IF x = k THEN run ELSE runs[x]]
            /\ finished' = finished \cup purged \cup (IF r.result # None THEN {k} ELSE {})
            /\ last' = [type |-> "Call", key |-> k, fragment_idx |-> m.fragment_idx,
                        total_fragments |-> m.total_fragments, width |-> m.width,
                        height |-> m.height, at |-> now, result |-> r.result,
                        had |-> had, late |-> (k \in finished \/ had = "expired"), run |-> run]
            /\ UNCHANGED <<now, net, codec_vars, send_vars, stun_vars, pair_vars, peer_vars, app_vars, disc_vars>>

Tick ==
    /\ now < MaxTime
    /\ now' = now + 1
    /\ UNCHANGED <<fragment_buffers, net, last, runs, finished, codec_vars, send_vars, stun_vars, pair_vars, peer_vars, app_vars, disc_vars>>

Next == Deliver \/ Tick

Spec == NodeInit /\ [][Next]_vars

\* Time passes whether or not datagrams arrive; no arrival is ever certain.
FairSpec == Spec /\ WF_vars(Tick)


-----------------------------------------------------------------------------
(* Reassembly *)

\* the last call belongs to a clean delivery of a sent frame: the buffer was
\* created for a fragment of that frame and has since (hence within the TTL)
\* received only fragments of that frame, none of them twice
CleanRun == last # NoMsg /\ last.run.pure

\* the number of fragments of the frame a clean run delivers
RunTotal == last.run.total

\* C4: for every payload and every order of delivery, feeding each fragment
\* of a fragmented frame once to process_fragment returns a VideoFrame whose
\* pixels are the payload, byte for byte.
C4_RoundTrip ==
    (CleanRun /\ last.run.idxs = 0..(RunTotal - 1))
        => last.result = VideoFrame(last.run.of.from, last.run.of.width, last.run.of.height,
                                    Pixels(last.run.of.px))

\* the five fragments of a 5580-byte payload delivered in reverse order
C4_Witness ==
    /\ CleanRun /\ last.run.desc /\ last.run.idxs = 0..4 /\ RunTotal = 5
    /\ last.result.type = "VideoFrame"
    /\ Len(last.result.pixels) = 5580 /\ last.result.pixels = Pixels(last.run.of.px)

\* C5: when the n fragments of a frame are each delivered once within the
\* TTL, in any order, the calls before the n-th return None, the n-th returns
\* the VideoFrame, and the buffer is in the map until then and not after.
C5_ExactlyOnce ==
    CleanRun =>
        /\ last.result # None <=> Cardinality(last.run.idxs) = RunTotal
        /\ last.result # None => last.result.type = "VideoFrame" /\ last.key \notin DOMAIN fragment_buffers
        /\ last.result = None => last.key \in DOMAIN fragment_buffers

\* the third of three fragments, arriving last with index 1, completes the frame
C5_Witness ==
    /\ CleanRun /\ RunTotal = 3 /\ Cardinality(last.run.idxs) = 3 /\ last.fragment_idx = 1
    /\ last.result.type = "VideoFrame" /\ last.key \notin DOMAIN fragment_buffers

\* C6: every process_fragment call first removes every buffer created 2 s or
\* more before it, complete or not; the age counts from the creation and no
\* later fragment refreshes it; so the fragments that arrive after the TTL find
\* no buffer: the call starts a new one and, of a frame of 2 or more fragments,
\* returns nothing.
C6_Purge ==
    /\ [](last = NoMsg => fragment_buffers = EmptyMap)
    /\ [](last # NoMsg => \A k \in DOMAIN fragment_buffers :
                              last.at - fragment_buffers[k].received_at < FRAGMENT_TTL)
    /\ [][\A k \in DOMAIN fragment_buffers \cap DOMAIN fragment_buffers' :
              \/ fragment_buffers'[k].received_at = fragment_buffers[k].received_at
              \/ Stale(k) /\ fragment_buffers'[k].received_at = now]_vars
    /\ []((last # NoMsg /\ last.had = "expired") =>
              /\ last.run.idxs = {last.fragment_idx}
              /\ last.total_fragments >= 2 => last.result = None
              /\ last.key \in DOMAIN fragment_buffers => fragment_buffers[last.key].received_at = last.at)

\* a frame of 5 fragments received 3, the TTL elapsed, the other 2 arrived:
\* the last call returned None
C6_Witness ==
    /\ last # NoMsg /\ RunTotal = 5 /\ last.run.of # NoMsg
    /\ Cardinality(last.run.before) = 3 /\ Cardinality(last.run.idxs) = 2
    /\ last.run.before \cup last.run.idxs = 0..4
    /\ last.result = None

\* C7: once the frame of a key was reassembled, or its buffer expired, every
\* later process_fragment call for that key returns None.
C7_LateIgnored == (last # NoMsg /\ last.late) => last.result = None

\* C7, amended: such a call is stored in a new buffer like any first fragment.
\* It returns None unless every index of the buffer it is stored in was
\* delivered to that buffer; so the first fragment after the reassembly or
\* the expiry returns None when the frame has 2 or more fragments.
C7_LateStartsAnew ==
    (last # NoMsg /\ last.late) =>
        /\ last.result # None => (0..(RunTotal - 1)) \subseteq last.run.idxs
        /\ (last.had # "live" /\ last.total_fragments >= 2) =>
               /\ last.result = None
               /\ last.key \in DOMAIN fragment_buffers
               /\ fragment_buffers[last.key].received_at = last.at

\* a fragment of a reassembled 2-fragment frame arrives again and returns None
C7_Witness ==
    /\ last # NoMsg /\ last.late /\ last.had = "none" /\ last.key \in finished
    /\ last.total_fragments = 2 /\ last.run.of # NoMsg
    /\ last.result = None

\* C8: every buffer not completed within 2 s of its creation is eventually
\* removed from the map, whether or not a further fragment ever arrives.
C8_EventuallyRemoved == \A k \in AllKeys : Stale(k) ~> ~Stale(k)

\* C8, amended: such a buffer is removed by the next process_fragment call
\* (for any frame) made 2 s or more after its creation, and stays in the map
\* as long as no call is made.
C8_RemovedAtNextCall ==
    [][\A k \in DOMAIN fragment_buffers :
          Stale(k) =>
              \/ now' # now /\ k \in DOMAIN fragment_buffers' /\ fragment_buffers'[k] = fragment_buffers[k]
              \/ now' = now /\ (k \notin DOMAIN fragment_buffers' \/ fragment_buffers'[k].received_at = now)]_vars

\* a buffer created 2 s ago is still in the map, no call having been made since
C8_Witness ==
    \E k \in DOMAIN fragment_buffers :
        /\ Stale(k) /\ ~is_complete(fragment_buffers[k])
        /\ last.at < fragment_buffers[k].received_at + FRAGMENT_TTL

\* the indices of the filled slots of a buffer
Filled(buf) == {i \in 0..(Len(buf.fragments) - 1) : buf.fragments[i + 1] # None}

\* C33: whatever fragment_idx and total_fragments a call carries (an index at
\* or past the total, a total of 0, a total other than the one the buffer was
\* created with), process_fragment stores nothing outside the slot array the
\* buffer was created with, and returns None unless every slot of the buffer
\* holds a fragment and their concatenation decompresses.
C33_TotalOverArguments ==
    /\ \A k \in DOMAIN fragment_buffers :
          /\ Len(fragment_buffers[k].fragments) = runs[k].total
          /\ fragment_buffers[k].total_fragments = runs[k].total
          /\ Filled(fragment_buffers[k]) = runs[k].idxs \cap (0..(runs[k].total - 1))
    /\ last # NoMsg =>
          /\ last.result # None =>
                /\ last.result.type = "VideoFrame"
                /\ (0..(last.run.total - 1)) \subseteq last.run.idxs
          /\ last.fragment_idx >= last.run.total => last.result = None
          /\ (last.key \in DOMAIN fragment_buffers
                /\ is_complete(fragment_buffers[last.key])) =>
                    reassemble(fragment_buffers[last.key]) = None

\* a buffer created for 2 fragments by a fragment of index 3 (not stored) then
\* got fragment 0 of a frame that claims 0 fragments: it went to slot 0 of the
\* 2 slots, and both calls returned None
C33_Witness ==
    /\ last # NoMsg /\ last.had = "live"
    /\ last.run.total = 2 /\ 3 \in last.run.idxs
    /\ last.total_fragments = 0
    /\ last.result = None
    /\ Filled(fragment_buffers[last.key]) = {0}

\* C35: a fragment delivered again to a buffer that already holds it, the
\* frame not yet complete, leaves the set of filled slots as it was and
\* returns None; a call returns a VideoFrame only when the slots filled
\* before it and the slot of its own index are all the slots of the buffer.
C35_DuplicatesFillNothing ==
    [][(now' = now /\ last'.type = "Call") =>
          /\ (/\ last'.had = "live"
              /\ last'.key \in DOMAIN fragment_buffers
              /\ ~is_complete(fragment_buffers[last'.key])
              /\ last'.fragment_idx \in Filled(fragment_buffers[last'.key])) =>
                 /\ last'.result = None
                 /\ last'.key \in DOMAIN fragment_buffers'
                 /\ Filled(fragment_buffers'[last'.key]) = Filled(fragment_buffers[last'.key])
          /\ last'.result # None =>
                 /\ last'.result.type = "VideoFrame"
                 /\ LET before == IF last'.had = "live" THEN Filled(fragment_buffers[last'.key]) ELSE {}
                        n == IF last'.had = "live" THEN Len(fragment_buffers[last'.key].fragments)
                             ELSE last'.total_fragments
                    IN  /\ n > 0
                        /\ before \cup {last'.fragment_idx} = 0..(n - 1)]_vars

\* fragments 0 and 2 of a frame of 3 are stored, one of them was delivered
\* twice, and the frame is still waiting for fragment 1
C35_Witness ==
    /\ net = FragmentsOf(Frame3)
    /\ last # NoMsg /\ last.had = "live" /\ ~last.run.pure
    /\ last.run.idxs = {0, 2}
    /\ last.key \in DOMAIN fragment_buffers
    /\ Filled(fragment_buffers[last.key]) = {0, 2}
    /\ last.result = None

\* C36: frames with different (from, frame_id) keys are assembled side by
\* side: a call for one key leaves the buffer of every other key as it was
\* (unless that buffer is 2 s old and is purged), and a frame whose fragments
\* are each delivered once within the TTL is returned with its own payload by
\* the call that brings its last fragment and by no other, whatever is
\* delivered for other keys in between.
C36_KeysIndependent ==
    [][(now' = now /\ last'.type = "Call") =>
          /\ \A x \in DOMAIN fragment_buffers \ {last'.key} :
                IF Stale(x) THEN x \notin DOMAIN fragment_buffers'
                ELSE x \in DOMAIN fragment_buffers' /\ fragment_buffers'[x] = fragment_buffers[x]
          /\ DOMAIN fragment_buffers' \subseteq DOMAIN fragment_buffers \cup {last'.key}
          /\ last'.run.pure =>
                /\ last'.result # None <=> last'.run.idxs = 0..(last'.run.total - 1)
                /\ last'.result # None =>
                      last'.result = VideoFrame(last'.run.of.from, last'.run.of.width,
                                                last'.run.of.height, Pixels(last'.run.of.px))]_vars

\* A's frame of 2 fragments was returned with its payload while the buffer
\* of B's frame with the same frame_id, begun before, holds one fragment
C36_Witness ==
    /\ net = FragmentsOf(Frame2) \cup FragmentsOf(Frame2a)
    /\ last # NoMsg /\ last.run.pure /\ last.run.of = Frame2a
    /\ last.result.type = "VideoFrame" /\ last.result.pixels = Pixels(Frame2a.px)
    /\ \E x \in DOMAIN fragment_buffers :
          /\ x # last.key /\ runs[x].pure /\ runs[x].of = Frame2
          /\ Cardinality(Filled(fragment_buffers[x])) = 1
          /\ fragment_buffers[x].received_at < last.at

-----------------------------------------------------------------------------
(* Fragmentation *)

\* the data of the messages lo..hi, joined in order
RECURSIVE JoinData(_, _, _)
JoinData(msgs, lo, hi) ==
    IF lo > hi THEN <<>>
    ELSE IF lo = hi THEN msgs[lo].data
    ELSE LET mid == (lo + hi) \div 2
         IN  JoinData(msgs, lo, mid) \o JoinData(msgs, mid + 1, hi)

\* the compressed payload of the call
Compressed == compress_prepend_size(Pixels(call.px))

LEAVE_GRACE_PERIOD == 2    \* seconds
PEER_TIMEOUT == 30         \* seconds

Unknown == <<117, 110, 107, 110, 111, 119, 110>>    \* "unknown"
NodeName == <<77, 101>>                              \* "Me": the node's own name
LocalAddr == "0.0.0.0:7890"                          \* socket.local_addr() of the bound socket
StunAddr == "203.0.113.9:7890"                       \* the public endpoint STUN reports
AddrA == "192.168.1.10:7890"
AddrB == "192.168.1.11:7890"

Peer(name, addr, last_seen) == [name |-> name, addr |-> addr, last_seen |-> last_seen]

\* NetworkNode::new
NetworkNode_new(name) ==
    [name |-> name, local_addr |-> LocalAddr, public_addr |-> None,
     peers |-> <<>>, known_addrs |-> {}, recently_left |-> EmptyMap]

set_public_addr(n, addr) == [n EXCEPT !.public_addr = Some(addr)]

\* now.duration_since(earlier): zero when earlier is later than now
duration_since(t, earlier) == IF t >= earlier THEN t - earlier ELSE 0

\* self.peers.iter_mut().find(|p| p.addr == addr): the index of the first
\* entry with that address, 0 for None
FindPeer(peers, addr) ==
    LET S == {i \in 1..Len(peers) : peers[i].addr = addr}
    IN  IF S = {} THEN 0 ELSE CHOOSE i \in S : \A j \in S : i <= j

\* add_peer pushing a new entry whether or not the address is in the table
add_peer_AlwaysPush(n, name, addr, t) ==
    IF Some(addr) = n.public_addr \/ addr = n.local_addr THEN n
    ELSE [n EXCEPT !.known_addrs = @ \cup {addr},
                   !.peers = Append(@, Peer(name, addr, t))]

\* add_peer without the check against the node's own addresses
add_peer_NoSelfCheck(n, name, addr, t) ==
    LET i == FindPeer(n.peers, addr)
    IN  [n EXCEPT !.known_addrs = @ \cup {addr},
                  !.peers = IF i # 0 THEN [@ EXCEPT ![i].name = name, ![i].last_seen = t]
                            ELSE Append(@, Peer(name, addr, t))]

\* add_peer refreshing last_seen of an existing entry but keeping its name
add_peer_KeepName(n, name, addr, t) ==
    IF Some(addr) = n.public_addr \/ addr = n.local_addr THEN n
    ELSE LET i == FindPeer(n.peers, addr)
         IN  [n EXCEPT !.known_addrs = @ \cup {addr},
                       !.peers = IF i # 0 THEN [@ EXCEPT ![i].last_seen = t]
                                 ELSE Append(@, Peer(name, addr, t))]

add_peer(n, name, addr, t) ==
    IF Some(addr) = n.public_addr \/ addr = n.local_addr THEN n
    ELSE LET i == FindPeer(n.peers, addr)
         IN  [n EXCEPT !.known_addrs = @ \cup {addr},
                       !.peers = IF i # 0 THEN [@ EXCEPT ![i].name = name, ![i].last_seen = t]
                                 ELSE Append(@, Peer(name, addr, t))]

\* remove_peer that also forgets the address
remove_peer_Forget(n, addr, t) ==
    [n EXCEPT !.peers = SelectSeq(@, LAMBDA p : p.addr # addr),
              !.known_addrs = @ \ {addr},
              !.recently_left = [x \in DOMAIN @ \cup {addr} |-> IF x = addr THEN t ELSE @[x]]]

remove_peer(n, addr, t) ==
    [n EXCEPT !.peers = SelectSeq(@, LAMBDA p : p.addr # addr),
              !.recently_left = [x \in DOMAIN @ \cup {addr} |-> IF x = addr THEN t ELSE @[x]]]

\* prune_peers keeping a peer whose age equals the timeout
prune_peers_Strict(n, timeout, t) ==
    [node |-> [n EXCEPT !.peers = SelectSeq(@, LAMBDA p : ~(duration_since(t, p.last_seen) > timeout))],
     pruned |-> SelectSeq(n.peers, LAMBDA p : duration_since(t, p.last_seen) > timeout)]

\* prune_peers recording the peers it removes as having left
prune_peers_AsLeave(n, timeout, t) ==
    LET gone == {n.peers[i].addr : i \in {j \in 1..Len(n.peers) :
                                            duration_since(t, n.peers[j].last_seen) >= timeout}}
    IN  [node |-> [n EXCEPT !.peers = SelectSeq(@, LAMBDA p : ~(duration_since(t, p.last_seen) >= timeout)),
                            !.recently_left = [x \in DOMAIN @ \cup gone |-> IF x \in gone THEN t ELSE @[x]]],
         pruned |-> SelectSeq(n.peers, LAMBDA p : duration_since(t, p.last_seen) >= timeout)]

\* prune_peers: the node afterwards and the Vec<Peer> returned
prune_peers(n, timeout, t) ==
    [node |-> [n EXCEPT !.peers = SelectSeq(@, LAMBDA p : ~(duration_since(t, p.last_seen) >= timeout))],
     pruned |-> SelectSeq(n.peers, LAMBDA p : duration_since(t, p.last_seen) >= timeout)]

\* has_peer counting a peer whose age equals the timeout as alive
has_peer_Inclusive(n, addr, timeout, t) ==
    \E i \in 1..Len(n.peers) :
        n.peers[i].addr = addr /\ duration_since(t, n.peers[i].last_seen) <= timeout

has_peer(n, addr, timeout, t) ==
    \E i \in 1..Len(n.peers) :
        n.peers[i].addr = addr /\ duration_since(t, n.peers[i].last_seen) < timeout

knows_peer(n, addr) == addr \in n.known_addrs

\* recently_left without the clean-up of old entries
recently_left_NoCleanup(n, addr, t) ==
    [node |-> n, result |-> addr \in DOMAIN n.recently_left]

\* recently_left (&mut self): the node afterwards and the bool returned
recently_left(n, addr, t) ==
    LET keep == {a \in DOMAIN n.recently_left :
                    duration_since(t, n.recently_left[a]) < LEAVE_GRACE_PERIOD}
        kept == [a \in keep |-> n.recently_left[a]]
    IN  [node |-> [n EXCEPT !.recently_left = kept], result |-> addr \in keep]

\* touch_peer refreshing every entry of the table
touch_peer_All(n, addr, t) ==
    [n EXCEPT !.peers = [i \in 1..Len(@) |-> [@[i] EXCEPT !.last_seen = t]]]

touch_peer(n, addr, t) ==
    LET i == FindPeer(n.peers, addr)
    IN  IF i # 0 THEN [n EXCEPT !.peers[i].last_seen = t] ELSE n

\* A datagram handed to the socket
Datagram(m, to) == [msg |-> m, to |-> to]

\* connect_to_peer adding the peer before it sends the Join
connect_to_peer_AddFirst(n, addr, t, send_ok) ==
    IF ~send_ok THEN [node |-> add_peer(n, Unknown, addr, t), result |-> "Err", sent |-> <<>>]
    ELSE [node |-> add_peer(n, Unknown, addr, t), result |-> "Ok",
          sent |-> <<Datagram(Join(n.name), addr)>>]

\* connect_to_peer: send_ok says whether socket.send_to succeeded; the node
\* afterwards, the Result and the datagrams sent
connect_to_peer(n, addr, t, send_ok) ==
    IF ~send_ok THEN [node |-> n, result |-> "Err", sent |-> <<>>]
    ELSE [node |-> add_peer(n, Unknown, addr, t), result |-> "Ok",
          sent |-> <<Datagram(Join(n.name), addr)>>]

\* One socket.send_to of broadcast: the bytes, the destination, and whether
\* the send succeeded
Attempt(data, to, ok) == [data |-> data, to |-> to, ok |-> ok]

broadcast_StopOnError(n, m, fails) ==
    LET data == to_bytes(m)
        k == Len(n.peers)
        stop == CHOOSE i \in 1..(k + 1) :
                    /\ i = k + 1 \/ n.peers[i].addr \in fails
                    /\ \A j \in 1..(i - 1) : n.peers[j].addr \notin fails
    IN  [result |-> IF stop > k THEN "Ok" ELSE "Err",
         attempts |-> [i \in 1..Min(stop, k) |->
                          Attempt(data, n.peers[i].addr, n.peers[i].addr \notin fails)]]

\* broadcast(&self, msg): fails are the addresses socket.send_to fails for;
\* the Result and the sends attempted, in order.  The node is borrowed
\* immutably, so there is no node afterwards to give back.
broadcast(n, m, fails) ==
    LET data == to_bytes(m)
    IN  [result |-> "Ok",
         attempts |-> [i \in 1..Len(n.peers) |->
                          Attempt(data, n.peers[i].addr, n.peers[i].addr \notin fails)]]

(***************************************************************************)
(* History of the addresses (kept beside the node, never read by it):      *)
(*   left_at   addr -> time of the most recent remove_peer(addr)           *)
(*   accepted  the addresses add_peer was called with that were not the    *)
(*             node's own                                                  *)
(*   arrival   the addresses in the table, in the order of their first     *)
(*             insertion since they were last removed                      *)
(*   replied   addresses a datagram came from while their table entry had  *)
(*             the placeholder name                                        *)
(***************************************************************************)
HistNew ==
    [left_at |-> EmptyMap, accepted |-> {}, arrival |-> <<>>, replied |-> {}]

InSeq(x, s) == \E i \in 1..Len(s) : s[i] = x
IsSelf(n, addr) == Some(addr) = n.public_addr \/ addr = n.local_addr
Addrs(peers) == {peers[i].addr : i \in 1..Len(peers)}

HistAdd(h, n, addr) ==
    IF IsSelf(n, addr) THEN h
    ELSE [h EXCEPT !.accepted = @ \cup {addr},
                   !.arrival = IF InSeq(addr, @) THEN @ ELSE Append(@, addr)]

HistGone(h, gone) ==
    [h EXCEPT !.arrival = SelectSeq(@, LAMBDA a : a \notin gone),
              !.replied = @ \ gone]

HistLeft(h, addr, t) ==
    [HistGone(h, {addr}) EXCEPT
        !.left_at = [x \in DOMAIN @ \cup {addr} |-> IF x = addr THEN t ELSE @[x]]]

(***************************************************************************)
(* The node under every sequence of calls of its peer-table methods.       *)
(***************************************************************************)
PeerAddrs == {AddrA, AddrB}
\* the arguments add_peer is called with: a peer under two names, a second
\* peer, and the node's own two addresses
AddCalls == {<<S_Al, AddrA>>, <<S_Bob, AddrA>>, <<S_Bob, AddrB>>,
             <<S_Al, LocalAddr>>, <<S_Al, StunAddr>>}
ConnectAddrs == {AddrA, StunAddr}
LeaveAddrs == {AddrA}
Timeouts == {1, 2}         \* the timeout argument of prune_peers, in seconds

\* what a call may give back: a bool (Ok, true), the branch taken, the peers
\* pruned, the datagrams sent, the sends attempted; timeout is the argument
\* of prune_peers
NoResult ==
    [ok |-> TRUE, branch |-> "", timeout |-> 0, pruned |-> <<>>, sent |-> <<>>,
     attempts |-> <<>>]

Op(op, name, addr, result) ==
    [op |-> op, name |-> name, addr |-> addr, at |-> now, result |-> result]

\* what a call on the node leaves alone
NodeOnly ==
    UNCHANGED <<fragment_buffers, net, last, runs, finished, codec_vars, send_vars, stun_vars, pair_vars, app_vars,
                disc_vars>>

PeerInit ==
    /\ node = NetworkNode_new(NodeName)
    /\ plast = [op |-> "new", name |-> NodeName, addr |-> LocalAddr, at |-> 0, result |-> NoResult]
    /\ hist = HistNew
    /\ IdleApp /\ IdleDisc
    /\ IdleStun /\ IdlePair /\ IdleCodec /\ IdleSend /\ IdleNode

SetPublicAddr ==
    /\ node' = set_public_addr(node, StunAddr)
    /\ plast' = Op("set_public_addr", <<>>, StunAddr, NoResult)
    /\ UNCHANGED <<hist, now>>
    /\ NodeOnly

AddPeer ==
    /\ \E c \in AddCalls :
           /\ node' = add_peer(node, c[1], c[2], now)
           /\ plast' = Op("add_peer", c[1], c[2], NoResult)
           /\ hist' = HistAdd(hist, node, c[2])
           /\ UNCHANGED now
    /\ NodeOnly

ConnectToPeer ==
    /\ \E addr \in ConnectAddrs, send_ok \in BOOLEAN :
           LET r == connect_to_peer(node, addr, now, send_ok)
           IN  /\ node' = r.node
               /\ plast' = Op("connect_to_peer", Unknown, addr,
                             [NoResult EXCEPT !.ok = (r.result = "Ok"), !.sent = r.sent])
               /\ hist' = IF send_ok THEN HistAdd(hist, node, addr) ELSE hist
               /\ UNCHANGED now
    /\ NodeOnly

RemovePeer ==
    /\ \E addr \in LeaveAddrs :
           /\ node' = remove_peer(node, addr, now)
           /\ plast' = Op("remove_peer", <<>>, addr, NoResult)
           /\ hist' = HistLeft(hist, addr, now)
           /\ UNCHANGED now
    /\ NodeOnly

PrunePeers ==
    /\ \E timeout \in Timeouts :
           LET r == prune_peers(node, timeout, now)
           IN  /\ node' = r.node
               /\ plast' = Op("prune_peers", <<>>, "",
                             [NoResult EXCEPT !.timeout = timeout, !.pruned = r.pruned])
               /\ hist' = HistGone(hist, Addrs(r.pruned))
               /\ UNCHANGED now
    /\ NodeOnly

TouchPeer ==
    /\ \E addr \in LeaveAddrs :
           /\ node' = touch_peer(node, addr, now)
           /\ plast' = Op("touch_peer", <<>>, addr, NoResult)
           /\ UNCHANGED <<hist, now>>
    /\ NodeOnly

RecentlyLeft ==
    /\ \E addr \in LeaveAddrs :
           LET r == recently_left(node, addr, now)
           IN  /\ node' = r.node
               /\ plast' = Op("recently_left", <<>>, addr, [NoResult EXCEPT !.ok = r.result])
               /\ UNCHANGED <<hist, now>>
    /\ NodeOnly

\* the messages broadcast is called with, and the sets of failing sends
BroadcastMsgs == {Chat(NodeName, S_Hi)}
SendFailures == {{AddrA}}

Broadcast ==
    /\ \E m \in BroadcastMsgs, fails \in SendFailures :
           LET r == broadcast(node, m, fails)
           IN  /\ plast' = Op("broadcast", <<>>, "",
                             [NoResult EXCEPT !.ok = (r.result = "Ok"),
                                              !.attempts = r.attempts])
               /\ UNCHANGED <<node, hist, now>>
    /\ NodeOnly

\* a second passes between two calls
PeerTick ==
    /\ now < MaxTime
    /\ now' = now + 1
    /\ plast' = Op("tick", <<>>, "", NoResult)
    /\ UNCHANGED <<node, hist>>
    /\ NodeOnly

PeerNext ==
    \/ SetPublicAddr \/ AddPeer \/ ConnectToPeer \/ RemovePeer
    \/ PrunePeers \/ TouchPeer \/ RecentlyLeft \/ Broadcast \/ PeerTick

PeerSpec == PeerInit /\ [][PeerNext]_vars


(***************************************************************************)
(* Claims about the peer table *)
(***************************************************************************)
Expired(p, timeout, t) == t - p.last_seen >= timeout

\* C11 as stated: prune_peers(timeout) at time t removes and returns exactly the
\* peers whose age t - last_seen exceeds timeout (is greater than it), and
\* keeps every other peer, in order and unchanged.
C11_PruneExceeds ==
    [][(plast'.op = "prune_peers" /\ now' = now) =>
          LET timeout == plast'.result.timeout
          IN  /\ plast'.result.pruned = SelectSeq(node.peers, LAMBDA p : now - p.last_seen > timeout)
              /\ node'.peers = SelectSeq(node.peers, LAMBDA p : ~(now - p.last_seen > timeout))]_vars

\* C11, amended: prune_peers(timeout) at time t removes and returns exactly the
\* peers whose age t - last_seen is at least timeout (a peer whose age equals
\* the timeout goes too); every other peer stays, in the same relative order,
\* with name, addr and last_seen unchanged, and nothing else of the node changes.
C11_PruneAtLeast ==
    [][(plast'.op = "prune_peers" /\ now' = now) =>
          /\ plast'.result.pruned =
                 SelectSeq(node.peers, LAMBDA p : Expired(p, plast'.result.timeout, now))
          /\ node'.peers =
                 SelectSeq(node.peers, LAMBDA p : ~Expired(p, plast'.result.timeout, now))
          /\ node' = [node EXCEPT !.peers = node'.peers]]_vars

\* a prune that split a table of two: the peer whose age equals the timeout
\* went, the younger one stayed
C11_Witness ==
    /\ plast.op = "prune_peers"
    /\ Len(plast.result.pruned) = 1 /\ Len(node.peers) = 1
    /\ plast.at - plast.result.pruned[1].last_seen = plast.result.timeout
    /\ plast.at - node.peers[1].last_seen < plast.result.timeout

\* C13: recently_left(addr) called at time t returns true exactly when addr has
\* been given to remove_peer and the most recent remove_peer(addr) was less than
\* LEAVE_GRACE_PERIOD (2 s) before t, whatever add_peer calls came in between.
C13_RecentlyLeft ==
    plast.op = "recently_left" =>
        plast.result.ok = (/\ plast.addr \in DOMAIN hist.left_at
                           /\ plast.at - hist.left_at[plast.addr] < LEAVE_GRACE_PERIOD)

\* recently_left answered false exactly 2 s after the removal, for an address
\* that had been added again in the meantime
C13_Witness ==
    /\ plast.op = "recently_left" /\ plast.result.ok = FALSE
    /\ plast.addr \in DOMAIN hist.left_at
    /\ plast.at - hist.left_at[plast.addr] = LEAVE_GRACE_PERIOD
    /\ plast.addr \in Addrs(node.peers)

\* C16: in every reachable state no two entries of the peer table have the same
\* addr, and the entries stand in the order in which their addr was first
\* inserted since it was last removed.
C16_UniqueOrdered ==
    /\ \A i, j \in 1..Len(node.peers) : node.peers[i].addr = node.peers[j].addr => i = j
    /\ [i \in 1..Len(node.peers) |-> node.peers[i].addr] = hist.arrival

\* the first peer left and came back: it now stands after the second, and an
\* upsert of the second did not move it
C16_Witness ==
    /\ Len(node.peers) = 2
    /\ node.peers[1].addr = AddrB /\ node.peers[2].addr = AddrA
    /\ AddrA \in DOMAIN hist.left_at
    /\ node.peers[1].last_seen > node.peers[2].last_seen

\* C17: add_peer with the node's local address, or with its public address once
\* one is set, changes nothing of the node (peer table, known_addrs,
\* recently_left), also when it is reached through connect_to_peer.
C17_SelfIsNoOp ==
    [][(/\ plast'.op \in {"add_peer", "connect_to_peer"}
        /\ now' = now
        /\ IsSelf(node, plast'.addr)) => node' = node]_vars

\* connect_to_peer to the public address succeeded and left a non-empty table
\* and known_addrs without that address
C17_Witness ==
    /\ plast.op = "connect_to_peer" /\ plast.result.ok
    /\ plast.addr = StunAddr /\ node.public_addr = Some(StunAddr)
    /\ StunAddr \notin node.known_addrs /\ StunAddr \notin Addrs(node.peers)
    /\ Len(node.peers) = 2 /\ DOMAIN node.recently_left # {}

\* C18: add_peer(name, addr) with an addr that is not the node's own either
\* rewrites name and last_seen of the one entry with that addr, keeping the
\* table's length, or appends {name, addr, last_seen = now}; every other entry
\* is unchanged.
C18_Upsert ==
    [][(plast'.op = "add_peer" /\ now' = now /\ ~IsSelf(node, plast'.addr)) =>
          LET i == FindPeer(node.peers, plast'.addr)
              entry == Peer(plast'.name, plast'.addr, now)
          IN  IF i # 0
              THEN /\ Len(node'.peers) = Len(node.peers)
                   /\ node'.peers[i] = entry
                   /\ \A j \in 1..Len(node.peers) : j # i => node'.peers[j] = node.peers[j]
              ELSE node'.peers = Append(node.peers, entry)]_vars

\* the first of two entries was renamed in place by the last call
C18_Witness ==
    /\ plast.op = "add_peer" /\ plast.name = S_Bob /\ plast.addr = AddrA
    /\ Len(node.peers) = 2
    /\ node.peers[1] = Peer(S_Bob, AddrA, plast.at)
    /\ node.peers[2].addr = AddrB /\ node.peers[2].last_seen < plast.at

\* C19: known_addrs never loses an address; knows_peer(addr) is true exactly
\* for the addresses add_peer has accepted, whatever was removed or pruned
\* since; every addr of the peer table is in known_addrs.
C19_KnownGrows ==
    /\ [](\A a \in PeerAddrs \cup {LocalAddr, StunAddr} :
              knows_peer(node, a) <=> a \in hist.accepted)
    /\ [](Addrs(node.peers) \subseteq node.known_addrs)
    /\ [][node.known_addrs \subseteq node'.known_addrs]_vars

\* an address that was accepted, then removed, is still known; one never
\* accepted is not
C19_Witness ==
    /\ knows_peer(node, AddrA) /\ AddrA \notin Addrs(node.peers)
    /\ AddrA \in DOMAIN hist.left_at
    /\ ~knows_peer(node, AddrB)

\* C21: broadcast attempts one send of the same encoded message to every peer
\* of the table, in table order, whichever sends fail; it returns Ok and
\* leaves the node (peers, known_addrs, recently_left) as it was
C21_BestEffort ==
    [][plast'.op = "broadcast" =>
        LET att == plast'.result.attempts
        IN  /\ node' = node
            /\ plast'.result.ok
            /\ Len(att) = Len(node.peers)
            /\ \E m \in BroadcastMsgs :
                   \A i \in 1..Len(att) :
                       att[i].data = to_bytes(m) /\ att[i].to = node.peers[i].addr]_vars

\* a broadcast to two peers whose first send failed and whose second succeeded
C21_Witness ==
    /\ plast.op = "broadcast"
    /\ Len(plast.result.attempts) = 2
    /\ ~plast.result.attempts[1].ok
    /\ plast.result.attempts[2].ok
    /\ plast.result.attempts[2].to = node.peers[2].addr


(***************************************************************************)
(* The application's tasks around the peer table.                          *)
(*   net_recv_task (src/src/app.rs) reads datagrams from the socket and    *)
(*     forwards Join / Leave as PeerEvent, Chat as Message, answers Ping;  *)
(*   run_discovery (src/src/network/discovery.rs) forwards announcements   *)
(*     of other nodes as DiscoveredPeer;                                   *)
(*   the main loop (src/src/main.rs) owns the NetworkNode: each round it   *)
(*     prunes, then drains the three channels in turn.                     *)
(* The tasks run concurrently: a step of one may come between any two      *)
(* steps of another.                                                       *)
(***************************************************************************)
MaxQueue == 1      \* items waiting in one channel (the channels hold 32)
MaxLate == 1       \* seconds the clock runs on after PEER_TIMEOUT - 1

\* events waiting in peer_event_rx (the channel holds 32): two, so that
\* events wait in the order they were received
EventQueue == 2

\* the instants at which something happens: the start, the end of a grace
\* period begun at the start, and the seconds around PEER_TIMEOUT
AppInstants ==
    {0, LEAVE_GRACE_PERIOD} \cup ((PEER_TIMEOUT - 1)..(PEER_TIMEOUT - 1 + MaxLate))

Joined(name, addr) == [type |-> "Joined", name |-> name, addr |-> addr]
Left(name, addr) == [type |-> "Left", name |-> name, addr |-> addr]
DiscoveredPeer(name, addr) == [name |-> name, addr |-> addr]

\* what the socket may receive, and from whom
Incoming ==
    {Datagram(Join(S_Al), AddrA), Datagram(Leave(S_Al), AddrA),
     Datagram(Chat(S_Al, S_Hi), AddrA), Datagram(Ping(<<0, 1>>), AddrA)}

\* the announcements the discovery socket may receive: a peer's and our own
Announcements == {DiscoveredPeer(S_Al, AddrA), DiscoveredPeer(NodeName, LocalAddr)}

\* network.peers of the configuration, already parsed
ConfigPeers == {<<>>, <<AddrA>>, <<AddrB>>}

\* main loop, peer_event_rx: PeerEvent::Joined / PeerEvent::Left
handle_peer_event(n, event, t) ==
    IF event.type = "Joined" THEN add_peer(n, event.name, event.addr, t)
    ELSE remove_peer(n, event.addr, t)

\* the discovery_rx handling without the grace-period check
handle_discovered_NoGrace(n, peer, t, send_ok) ==
    IF has_peer(n, peer.addr, PEER_TIMEOUT, t)
    THEN [node |-> touch_peer(n, peer.addr, t), sent |-> <<>>, branch |-> "touch"]
    ELSE LET c == connect_to_peer(n, peer.addr, t, send_ok)
         IN  IF c.result = "Err"
             THEN [node |-> c.node, sent |-> c.sent, branch |-> "failed"]
             ELSE [node |-> add_peer(c.node, peer.name, peer.addr, t), sent |-> c.sent,
                   branch |-> IF knows_peer(n, peer.addr) THEN "reconnect" ELSE "discovered"]

\* main loop, discovery_rx: one DiscoveredPeer; the node afterwards, the
\* datagrams sent and the branch taken
handle_discovered(n, peer, t, send_ok) ==
    IF has_peer(n, peer.addr, PEER_TIMEOUT, t)
    THEN [node |-> touch_peer(n, peer.addr, t), sent |-> <<>>, branch |-> "touch"]
    ELSE LET r == recently_left(n, peer.addr, t)
         IN  IF r.result
             THEN [node |-> r.node, sent |-> <<>>, branch |-> "grace"]
             ELSE LET c == connect_to_peer(r.node, peer.addr, t, send_ok)
                  IN  IF c.result = "Err"
                      THEN [node |-> c.node, sent |-> c.sent, branch |-> "failed"]
                      ELSE [node |-> add_peer(c.node, peer.name, peer.addr, t), sent |-> c.sent,
                            branch |-> IF knows_peer(r.node, peer.addr)
                                       THEN "reconnect" ELSE "discovered"]

\* the history after a datagram from addr came in
HistHeard(h, n, addr) ==
    [h EXCEPT
        !.replied = IF \E i \in 1..Len(n.peers) :
                          n.peers[i].addr = addr /\ n.peers[i].name = Unknown
                    THEN @ \cup {addr} ELSE @]

\* what the tasks leave alone
AppOnly ==
    UNCHANGED <<fragment_buffers, net, last, runs, finished, codec_vars, send_vars, stun_vars, pair_vars, disc_vars>>

AppInit ==
    /\ node = NetworkNode_new(NodeName)
    /\ plast = [op |-> "new", name |-> NodeName, addr |-> LocalAddr, at |-> 0, result |-> NoResult]
    /\ hist = HistNew
    /\ peer_event_rx = <<>> /\ discovery_rx = <<>> /\ net_rx = <<>>
    /\ mpc = "start"
    /\ IdleDisc
    /\ IdleStun /\ IdlePair /\ IdleCodec /\ IdleSend /\ IdleNode

\* App::new: STUN gives the public address; the configured peers are connected to
Startup ==
    /\ mpc = "start"
    /\ \E stun \in {TRUE}, cfg \in ConfigPeers, send_ok \in BOOLEAN :
          LET n1 == IF stun THEN set_public_addr(node, StunAddr) ELSE node
              r == IF cfg = <<>> THEN [node |-> n1, result |-> "Ok", sent |-> <<>>]
                   ELSE connect_to_peer(n1, cfg[1], now, send_ok)
          IN  /\ node' = r.node
              /\ plast' = Op("startup", Unknown, IF cfg = <<>> THEN "" ELSE cfg[1],
                            [NoResult EXCEPT !.ok = (r.result = "Ok"), !.sent = r.sent])
              /\ hist' = IF cfg # <<>> /\ r.result = "Ok" THEN HistAdd(hist, n1, cfg[1]) ELSE hist
    /\ mpc' = "top"
    /\ UNCHANGED <<now, peer_event_rx, discovery_rx, net_rx>>
    /\ AppOnly

\* a receive task that applies Join and Leave to the node itself
Recv_Direct ==
    /\ mpc # "start"
    /\ \E d \in Incoming :
          /\ \/ /\ d.msg.type = "Join"
                /\ node' = add_peer(node, d.msg.name, d.to, now)
                /\ UNCHANGED <<peer_event_rx, net_rx>>
                /\ plast' = Op("recv", <<>>, d.to, [NoResult EXCEPT !.branch = d.msg.type])
             \/ /\ d.msg.type = "Leave"
                /\ node' = remove_peer(node, d.to, now)
                /\ UNCHANGED <<peer_event_rx, net_rx>>
                /\ plast' = Op("recv", <<>>, d.to, [NoResult EXCEPT !.branch = d.msg.type])
             \/ /\ d.msg.type = "Chat"
                /\ UNCHANGED node
                /\ Len(net_rx) < MaxQueue
                /\ net_rx' = Append(net_rx, d.msg)
                /\ UNCHANGED peer_event_rx
                /\ plast' = Op("recv", <<>>, d.to, [NoResult EXCEPT !.branch = d.msg.type])
             \/ /\ d.msg.type = "Ping"
                /\ UNCHANGED <<node, peer_event_rx, net_rx>>
                /\ plast' = Op("recv", <<>>, d.to,
                               [NoResult EXCEPT !.branch = d.msg.type,
                                                !.sent = <<Datagram(Pong(d.msg.seq), d.to)>>])
          /\ hist' = HistHeard(hist, node, d.to)
    /\ UNCHANGED <<now, discovery_rx, mpc>>
    /\ AppOnly

\* net_recv_task: one datagram read from the socket and dispatched
Recv ==
    /\ mpc # "start"
    /\ \E d \in Incoming :
          /\ \/ /\ d.msg.type = "Join"
                /\ Len(peer_event_rx) < EventQueue
                /\ peer_event_rx' = Append(peer_event_rx, Joined(d.msg.name, d.to))
                /\ UNCHANGED net_rx
                /\ plast' = Op("recv", <<>>, d.to, [NoResult EXCEPT !.branch = d.msg.type])
             \/ /\ d.msg.type = "Leave"
                /\ Len(peer_event_rx) < EventQueue
                /\ peer_event_rx' = Append(peer_event_rx, Left(d.msg.name, d.to))
                /\ UNCHANGED net_rx
                /\ plast' = Op("recv", <<>>, d.to, [NoResult EXCEPT !.branch = d.msg.type])
             \/ /\ d.msg.type = "Chat"
                /\ Len(net_rx) < MaxQueue
                /\ net_rx' = Append(net_rx, d.msg)
                /\ UNCHANGED peer_event_rx
                /\ plast' = Op("recv", <<>>, d.to, [NoResult EXCEPT !.branch = d.msg.type])
             \/ /\ d.msg.type = "Ping"
                /\ UNCHANGED <<peer_event_rx, net_rx>>
                /\ plast' = Op("recv", <<>>, d.to,
                               [NoResult EXCEPT !.branch = d.msg.type,
                                                !.sent = <<Datagram(Pong(d.msg.seq), d.to)>>])
          /\ hist' = HistHeard(hist, node, d.to)
    /\ UNCHANGED <<node, now, discovery_rx, mpc>>
    /\ AppOnly

\* run_discovery: one announcement read; our own is ignored
Announce ==
    /\ mpc # "start"
    /\ \E peer \in Announcements :
          /\ Len(discovery_rx) < MaxQueue
          /\ discovery_rx' = IF peer.name = node.name THEN discovery_rx
                             ELSE Append(discovery_rx, peer)
          /\ plast' = Op("announce", peer.name, peer.addr, NoResult)
    /\ UNCHANGED <<node, hist, now, peer_event_rx, net_rx, mpc>>
    /\ AppOnly

\* main loop, serial port not connected: only the message and event channels
\* are drained this round
SerialDown ==
    /\ mpc = "top"
    /\ mpc' = "d_messages"
    /\ plast' = Op("serial_down", <<>>, "", NoResult)
    /\ UNCHANGED <<node, hist, now, peer_event_rx, discovery_rx, net_rx>>
    /\ AppOnly

\* main loop: prune_peers(PEER_TIMEOUT)
Prune ==
    /\ mpc = "top"
    /\ LET r == prune_peers(node, PEER_TIMEOUT, now)
       IN  /\ node' = r.node
           /\ plast' = Op("prune_peers", <<>>, "",
                         [NoResult EXCEPT !.timeout = PEER_TIMEOUT, !.pruned = r.pruned])
           /\ hist' = HistGone(hist, Addrs(r.pruned))
    /\ mpc' = "events"
    /\ UNCHANGED <<now, peer_event_rx, discovery_rx, net_rx>>
    /\ AppOnly

\* main loop: while let Ok(msg) = net_rx.try_recv()
HandleMessage ==
    /\ mpc \in {"messages", "d_messages"}
    /\ IF net_rx # <<>>
       THEN /\ net_rx' = Tail(net_rx)
            /\ plast' = Op("message", Head(net_rx).from, "", NoResult)
            /\ UNCHANGED mpc
       ELSE /\ mpc' = IF mpc = "messages" THEN "top" ELSE "d_events"
            /\ plast' = Op("drained", <<>>, "", [NoResult EXCEPT !.branch = mpc])
            /\ UNCHANGED net_rx
    /\ UNCHANGED <<node, hist, now, peer_event_rx, discovery_rx>>
    /\ AppOnly

\* main loop: while let Ok(event) = peer_event_rx.try_recv()
HandleEvent ==
    /\ mpc \in {"events", "d_events"}
    /\ IF peer_event_rx # <<>>
       THEN LET e == Head(peer_event_rx)
            IN  /\ node' = handle_peer_event(node, e, now)
                /\ hist' = IF e.type = "Joined" THEN HistAdd(hist, node, e.addr)
                           ELSE HistLeft(hist, e.addr, now)
                /\ peer_event_rx' = Tail(peer_event_rx)
                /\ plast' = Op(e.type, e.name, e.addr, NoResult)
                /\ UNCHANGED mpc
       ELSE /\ mpc' = IF mpc = "events" THEN "discovery" ELSE "top"
            /\ plast' = Op("drained", <<>>, "", [NoResult EXCEPT !.branch = mpc])
            /\ UNCHANGED <<node, hist, peer_event_rx>>
    /\ UNCHANGED <<now, discovery_rx, net_rx>>
    /\ AppOnly

\* main loop: while let Ok(peer) = discovery_rx.try_recv()
HandleDiscovered ==
    /\ mpc = "discovery"
    /\ IF discovery_rx # <<>>
       THEN \E send_ok \in BOOLEAN :
              LET peer == Head(discovery_rx)
                  r == handle_discovered(node, peer, now, send_ok)
              IN  /\ node' = r.node
                  /\ hist' = IF r.branch \in {"reconnect", "discovered"}
                             THEN HistAdd(hist, node, peer.addr) ELSE hist
                  /\ discovery_rx' = Tail(discovery_rx)
                  /\ plast' = Op("discovered", peer.name, peer.addr,
                                 [NoResult EXCEPT !.branch = r.branch, !.sent = r.sent])
                  /\ UNCHANGED mpc
       ELSE /\ mpc' = "messages"
            /\ plast' = Op("drained", <<>>, "", [NoResult EXCEPT !.branch = mpc])
            /\ UNCHANGED <<node, hist, discovery_rx>>
    /\ UNCHANGED <<now, peer_event_rx, net_rx>>
    /\ AppOnly

\* the clock reaches the next instant
AppTick ==
    /\ \E t \in AppInstants :
          /\ t > now
          /\ \A u \in AppInstants : u > now => t <= u
          /\ now' = t
    /\ plast' = Op("tick", <<>>, "", NoResult)
    /\ UNCHANGED <<node, hist, app_vars>>
    /\ AppOnly

AppNext ==
    \/ Startup \/ Recv \/ Announce \/ SerialDown \/ Prune
    \/ HandleMessage \/ HandleEvent \/ HandleDiscovered \/ AppTick

AppSpec == AppInit /\ [][AppNext]_vars


(***************************************************************************)
(* Claims about the tasks *)
(***************************************************************************)
\* C12: whenever a message of any kind is received from the address of a peer
\* in the table, that peer's last_seen becomes the time of receipt; so a prune
\* that comes straight after the receipt, and more generally any prune while
\* the peer's messages keep coming less than PEER_TIMEOUT apart, keeps the peer.
C12_ReceiptRefreshes ==
    /\ [](plast.op = "recv" =>
             \A i \in 1..Len(node.peers) :
                 node.peers[i].addr = plast.addr => node.peers[i].last_seen = plast.at)
    /\ [][(plast.op = "recv" /\ plast'.op = "prune_peers") =>
             plast.addr \notin Addrs(plast'.result.pruned)]_vars

\* C14: a DiscoveredPeer for addr handled less than LEAVE_GRACE_PERIOD after
\* remove_peer(addr) sends no Join and leaves the set of addresses in the peer
\* table as it was; handled once the grace period is over, for an addr that is
\* not a live peer, it calls connect_to_peer(addr): unless the send fails, a
\* Join goes to addr and addr is in the table afterwards.
C14_GracePeriod ==
    [][(plast'.op = "discovered" /\ now' = now /\ plast'.addr \in DOMAIN hist.left_at) =>
          LET a == plast'.addr
              age == now - hist.left_at[a]
              r == plast'.result
          IN  /\ age < LEAVE_GRACE_PERIOD =>
                    /\ r.sent = <<>>
                    /\ Addrs(node'.peers) = Addrs(node.peers)
              /\ (age >= LEAVE_GRACE_PERIOD /\ ~has_peer(node, a, PEER_TIMEOUT, now)) =>
                    /\ r.branch \in {"failed", "reconnect", "discovered"}
                    /\ r.branch # "failed" =>
                          /\ r.sent = <<Datagram(Join(node.name), a)>>
                          /\ a \in Addrs(node'.peers)]_vars

\* an announcement handled one second after the Leave was handled: skipped,
\* the address stays out of the table
C14_Witness ==
    /\ plast.op = "discovered" /\ plast.result.branch = "grace"
    /\ plast.addr \in DOMAIN hist.left_at
    /\ plast.at - hist.left_at[plast.addr] = 1
    /\ plast.addr \notin Addrs(node.peers)

\* C15: handling a DiscoveredPeer whose addr is a peer of the table with age
\* below PEER_TIMEOUT sends nothing and changes nothing of the node but that
\* peer's last_seen, which becomes now.
C15_OnlyTouch ==
    [][(/\ plast'.op = "discovered" /\ now' = now
        /\ has_peer(node, plast'.addr, PEER_TIMEOUT, now)) =>
          LET i == FindPeer(node.peers, plast'.addr)
          IN  /\ plast'.result.sent = <<>>
              /\ node' = [node EXCEPT !.peers[i].last_seen = now]]_vars

\* an announcement of a live peer refreshed it 29 s after it joined, beside a
\* configured peer that was not touched
C15_Witness ==
    /\ plast.op = "discovered" /\ plast.result.branch = "touch"
    /\ Len(node.peers) = 2
    /\ node.peers[1].addr = AddrB /\ node.peers[1].last_seen = 0
    /\ node.peers[2].addr = AddrA /\ node.peers[2].last_seen = PEER_TIMEOUT - 1
    /\ DOMAIN node.recently_left # {}

\* C20: once a datagram from addr has arrived while addr stood in the table
\* under the placeholder name, and everything received has been handled, the
\* table has no entry for addr under the placeholder name.
C20_PlaceholderReplaced ==
    (peer_event_rx = <<>> /\ net_rx = <<>> /\ mpc # "start") =>
        \A a \in hist.replied :
            ~\E i \in 1..Len(node.peers) :
                node.peers[i].addr = a /\ node.peers[i].name = Unknown

\* C22: the receive task and the discovery task never change the node or the
\* fragment buffers: the only steps that do are the main loop's (start-up,
\* prune, a handled event, a handled DiscoveredPeer).  A received Join or
\* Leave goes to the back of peer_event_rx as Joined / Left with the sender's
\* address, nothing else changes the channel, and the main loop takes the
\* oldest waiting event and applies it: add_peer for Joined, remove_peer for
\* Left.  So the node is what the events give applied one by one in the
\* order they were received.
C22_SingleOwner ==
    [][LET op == plast'.op
       IN  /\ op \in {"recv", "announce"} =>
                  node' = node /\ fragment_buffers' = fragment_buffers
           /\ node' # node => op \in {"startup", "prune_peers", "Joined", "Left", "discovered"}
           /\ op = "recv" =>
                  peer_event_rx' =
                      CASE plast'.result.branch = "Join" ->
                               Append(peer_event_rx, Joined(S_Al, plast'.addr))
                        [] plast'.result.branch = "Leave" ->
                               Append(peer_event_rx, Left(S_Al, plast'.addr))
                        [] OTHER -> peer_event_rx
           /\ op \in {"Joined", "Left"} =>
                  /\ peer_event_rx # <<>>
                  /\ peer_event_rx' = Tail(peer_event_rx)
                  /\ LET e == Head(peer_event_rx)
                     IN  /\ op = e.type
                         /\ e.type = "Joined" => node' = add_peer(node, e.name, e.addr, now)
                         /\ e.type = "Left" => node' = remove_peer(node, e.addr, now)
           /\ op \notin {"recv", "Joined", "Left"} => peer_event_rx' = peer_event_rx]_vars

\* a Leave and then a Join were received before the main loop looked: the
\* Left has been applied, the Joined still waits
C22_Witness ==
    /\ plast.op = "Left"
    /\ peer_event_rx = <<Joined(S_Al, AddrA)>>
    /\ AddrA \notin Addrs(node.peers)
    /\ AddrA \in DOMAIN hist.left_at /\ hist.left_at[AddrA] = now


(***************************************************************************)
(* LAN discovery (src/src/network/discovery.rs).                           *)
(*   Discovery::new computes the broadcast addresses from the interfaces   *)
(*   of the host; run_discovery is one task: a loop around a select! over  *)
(*   the initial delay, the announce interval, the socket and the shutdown *)
(*   signal.  The branch taken runs to its end before the next select!,    *)
(*   so while the branch waits in peer_tx.send(..).await nothing else of   *)
(*   the loop runs.  The application (the holder of the receiver and of    *)
(*   the shutdown sender), the network and the clock are the environment.  *)
(***************************************************************************)
BUF_LEN == 256         \* let mut buf = [0u8; 256]
OUR_PORT == 7890       \* config.network.port of this node

UNSPECIFIED == <<0, 0, 0, 0>>
BROADCAST == <<255, 255, 255, 255>>
LOCALHOST == <<127, 0, 0, 1>>

\* SocketAddr::new(ip, port), written as the peer table writes addresses
IpString(ip) ==
    ToString(ip[1]) \o "." \o ToString(ip[2]) \o "." \o ToString(ip[3]) \o "." \o ToString(ip[4])
SocketAddr(ip, port) == IpString(ip) \o ":" \o ToString(port)

\* get_if_addrs::Interface: the address family, the address, is_loopback(),
\* and the broadcast address the system reports for it (an Option)
Interface(v4, ip, loopback, bcast) ==
    [v4 |-> v4, ip |-> ip, loopback |-> loopback, broadcast |-> bcast]

get_broadcast_from_interface(iface) == IF iface.v4 THEN iface.broadcast ELSE None

\* the rounds i.. of `for iface in interfaces`, addrs being what is collected
RECURSIVE CollectBroadcast(_, _, _, _)
CollectBroadcast(interfaces, i, bind_ip, addrs) ==
    IF i > Len(interfaces) THEN addrs
    ELSE LET iface == interfaces[i]
             use_all_interfaces == bind_ip = UNSPECIFIED
             b == get_broadcast_from_interface(iface)
             a == IF b # None THEN b.v ELSE <<iface.ip[1], iface.ip[2], iface.ip[3], 255>>
             next == IF iface.loopback THEN addrs
                     ELSE IF ~iface.v4 THEN addrs
                     ELSE IF ~use_all_interfaces /\ iface.ip # bind_ip THEN addrs
                     ELSE IF InSeq(a, addrs) THEN addrs
                     ELSE Append(addrs, a)
         IN  CollectBroadcast(interfaces, i + 1, bind_ip, next)

\* get_broadcast_addresses that pushes the limited broadcast address always
get_broadcast_addresses_AlwaysLimited(interfaces, bind_ip) ==
    LET found == IF interfaces = None THEN <<>>
                 ELSE CollectBroadcast(interfaces.v, 1, bind_ip, <<>>)
    IN  Append(Append(found, BROADCAST), LOCALHOST)

\* interfaces is what get_if_addrs() returned: Some(list) for Ok, None for Err
get_broadcast_addresses(interfaces, bind_ip) ==
    LET found == IF interfaces = None THEN <<>>
                 ELSE CollectBroadcast(interfaces.v, 1, bind_ip, <<>>)
        addrs == IF found = <<>> THEN <<BROADCAST>> ELSE found
    IN  Append(addrs, LOCALHOST)

Discovery_new(name, listen_port, interfaces, bind_ip) ==
    [our_name |-> name, our_port |-> listen_port,
     broadcast_addrs |-> get_broadcast_addresses(interfaces, bind_ip)]

\* a datagram handed to the discovery socket: socket.send_to(&data, dest)
Packet(data, dest) == [data |-> data, to |-> dest]

\* announce: the datagrams sent, in order (send errors are ignored)
announce(d) ==
    LET data == DiscoveryMessage_to_bytes(DiscoveryMessage(d.our_name, d.our_port))
    IN  [i \in 1..Len(d.broadcast_addrs) |->
            Packet(data, SocketAddr(d.broadcast_addrs[i], DISCOVERY_PORT))]

announce_to(d, target) ==
    LET data == DiscoveryMessage_to_bytes(DiscoveryMessage(d.our_name, d.our_port))
    IN  <<Packet(data, target)>>

\* socket.recv_from(&mut buf): the first BUF_LEN bytes of the datagram and
\* the address it came from
Received(data, ip, port) ==
    [data |-> SubSeq(data, 1, Min(Len(data), BUF_LEN)), ip |-> ip, port |-> port]

NoPeer == DiscoveredPeer(<<>>, "")
Handled(branch, peer, reply_addr) == [branch |-> branch, peer |-> peer, reply_addr |-> reply_addr]

\* the receive branch without the comparison with our own name
on_datagram_NoSelfCheck(d, r) ==
    IF Len(r.data) = 0 THEN Handled("empty", NoPeer, "")
    ELSE LET m == DiscoveryMessage_from_bytes(r.data)
         IN  IF m = None THEN Handled("invalid", NoPeer, "")
             ELSE Handled("peer", DiscoveredPeer(m.name, SocketAddr(r.ip, m.port)),
                          SocketAddr(r.ip, DISCOVERY_PORT))

\* the receive branch replying to the address the datagram came from
on_datagram_ReplyToSource(d, r) ==
    IF Len(r.data) = 0 THEN Handled("empty", NoPeer, "")
    ELSE LET m == DiscoveryMessage_from_bytes(r.data)
         IN  IF m = None THEN Handled("invalid", NoPeer, "")
             ELSE IF m.name = d.our_name THEN Handled("own", NoPeer, "")
             ELSE Handled("peer", DiscoveredPeer(m.name, SocketAddr(r.ip, m.port)),
                          SocketAddr(r.ip, r.port))

\* the receive branch of the select!, Ok((len, addr)), up to peer_tx.send:
\* which way it goes, the peer to emit and the address to reply to
on_datagram(d, r) ==
    IF Len(r.data) = 0 THEN Handled("empty", NoPeer, "")
    ELSE LET m == DiscoveryMessage_from_bytes(r.data)
         IN  IF m = None THEN Handled("invalid", NoPeer, "")
             ELSE IF m.name = d.our_name THEN Handled("own", NoPeer, "")
             ELSE Handled("peer", DiscoveredPeer(m.name, SocketAddr(r.ip, m.port)),
                          SocketAddr(r.ip, DISCOVERY_PORT))

\* the host's interfaces
Lo == Interface(TRUE, LOCALHOST, TRUE, None)
Eth0 == Interface(TRUE, <<192, 168, 1, 5>>, FALSE, Some(<<192, 168, 1, 255>>))
Eth0b == Interface(TRUE, <<192, 168, 1, 6>>, FALSE, Some(<<192, 168, 1, 255>>))
Tun == Interface(TRUE, <<10, 0, 0, 7>>, FALSE, None)
V6 == Interface(FALSE, UNSPECIFIED, FALSE, None)

InterfaceLists ==
    {None, Some(<<Lo>>), Some(<<Lo, Eth0>>), Some(<<Lo, Eth0, Eth0b, Tun>>), Some(<<V6, Tun>>)}
BindIps == {UNSPECIFIED, Eth0.ip, Tun.ip}

\* the datagrams the discovery socket may receive: a peer's announce from
\* the discovery port and from another source port, our own broadcast come
\* back, a datagram of the message codec, an announce cut short, an empty one
PeerIp == <<192, 168, 1, 10>>
DiscInputs ==
    {Received(DiscoveryMessage_to_bytes(DiscoveryMessage(S_Al, 7890)), PeerIp, DISCOVERY_PORT),
     Received(DiscoveryMessage_to_bytes(DiscoveryMessage(S_Al, 7890)), PeerIp, 40000),
     Received(DiscoveryMessage_to_bytes(DiscoveryMessage(NodeName, OUR_PORT)), Eth0.ip, DISCOVERY_PORT),
     Received(to_bytes(Join(S_Al)), PeerIp, DISCOVERY_PORT),
     Received(SubSeq(DiscoveryMessage_to_bytes(DiscoveryMessage(S_Al, 7890)), 1, 12), PeerIp, DISCOVERY_PORT),
     Received(<<>>, PeerIp, DISCOVERY_PORT)}

Watch(value, changed, closed) == [value |-> value, changed |-> changed, closed |-> closed]
Timers(initial_ready, initial_announce_done, tick_due) ==
    [initial_ready |-> initial_ready, initial_announce_done |-> initial_announce_done,
     tick_due |-> tick_due]

\* what run_discovery and its environment leave alone
DiscOnly ==
    UNCHANGED <<codec_vars, send_vars, stun_vars, pair_vars, node_vars, node, hist, peer_event_rx, net_rx, mpc>>

DiscInit ==
    /\ denv \in {[interfaces |-> l, bind_ip |-> b] : l \in InterfaceLists, b \in BindIps}
    /\ disc = None /\ dpc = "new" /\ dgram = Received(<<>>, UNSPECIFIED, 0)
    /\ pending = Handled("none", NoPeer, "")
    /\ shutdown = Watch(FALSE, FALSE, FALSE)
    /\ rx_open = TRUE
    /\ timers = Timers(FALSE, FALSE, FALSE)
    /\ discovery_rx = <<>>
    /\ plast = [op |-> "init", name |-> <<>>, addr |-> "", at |-> 0, result |-> NoResult]
    /\ node = None /\ hist = None
    /\ peer_event_rx = <<>> /\ net_rx = <<>> /\ mpc = "idle"
    /\ IdleStun /\ IdlePair /\ IdleCodec /\ IdleSend /\ IdleNode

\* Discovery::new, and run_discovery up to its loop
DiscoveryNew ==
    /\ dpc = "new"
    /\ disc' = Discovery_new(NodeName, OUR_PORT, denv.interfaces, denv.bind_ip)
    /\ dpc' = "select"
    /\ plast' = Op("new", NodeName, "", NoResult)
    /\ UNCHANGED <<denv, dgram, pending, shutdown, rx_open, timers, discovery_rx>>
    /\ DiscOnly

\* select!: the initial delay is over and the initial announce not yet made
InitialAnnounce ==
    /\ dpc = "select"
    /\ timers.initial_ready /\ ~timers.initial_announce_done
    /\ timers' = [timers EXCEPT !.initial_announce_done = TRUE]
    /\ plast' = Op("announce", <<>>, "",
                  [NoResult EXCEPT !.branch = "initial", !.sent = announce(disc)])
    /\ UNCHANGED <<disc, denv, dpc, dgram, pending, shutdown, rx_open, discovery_rx>>
    /\ DiscOnly

\* select!: announce_interval.tick()
PeriodicAnnounce ==
    /\ dpc = "select"
    /\ timers.tick_due
    /\ timers' = [timers EXCEPT !.tick_due = FALSE]
    /\ plast' = Op("announce", <<>>, "",
                  [NoResult EXCEPT !.branch = "periodic", !.sent = announce(disc)])
    /\ UNCHANGED <<disc, denv, dpc, dgram, pending, shutdown, rx_open, discovery_rx>>
    /\ DiscOnly

\* select!: socket.recv_from gave Ok((len, addr)); the branch runs up to
\* peer_tx.send(peer), or to its end when there is nothing to emit
Receive ==
    /\ dpc = "select"
    /\ \E r \in DiscInputs :
          LET h == on_datagram(disc, r)
          IN  /\ dgram' = r
              /\ pending' = h
              /\ dpc' = IF h.branch = "peer" THEN "send" ELSE "select"
              /\ plast' = Op("recv", <<>>, "", [NoResult EXCEPT !.branch = h.branch])
    /\ UNCHANGED <<disc, denv, shutdown, rx_open, timers, discovery_rx>>
    /\ DiscOnly

\* select!: socket.recv_from gave Err: a pause of 100 ms
ReceiveError ==
    /\ dpc = "select"
    /\ plast' = Op("recv_err", <<>>, "", [NoResult EXCEPT !.ok = FALSE])
    /\ UNCHANGED <<disc_vars, discovery_rx>>
    /\ DiscOnly

\* peer_tx.send(peer).await completes: there is room in the channel, or the
\* receiver is gone and the error is ignored
Emit ==
    /\ dpc = "send"
    /\ ~rx_open \/ Len(discovery_rx) < MaxQueue
    /\ discovery_rx' = IF rx_open THEN Append(discovery_rx, pending.peer) ELSE discovery_rx
    /\ dpc' = "reply"
    /\ plast' = Op("emit", pending.peer.name, pending.peer.addr, [NoResult EXCEPT !.ok = rx_open])
    /\ UNCHANGED <<disc, denv, dgram, pending, shutdown, rx_open, timers>>
    /\ DiscOnly

\* discovery.announce_to(reply_addr).await, the end of the branch
Reply ==
    /\ dpc = "reply"
    /\ dpc' = "select"
    /\ plast' = Op("reply", <<>>, pending.reply_addr,
                  [NoResult EXCEPT !.sent = announce_to(disc, pending.reply_addr)])
    /\ UNCHANGED <<disc, denv, dgram, pending, shutdown, rx_open, timers, discovery_rx>>
    /\ DiscOnly

\* select!: shutdown.changed() is ready: Ok when there is a value not yet
\* seen, Err when the sender is gone
ObserveShutdown ==
    /\ dpc = "select"
    /\ shutdown.changed \/ shutdown.closed
    /\ LET is_err == ~shutdown.changed
           leave == is_err \/ shutdown.value
       IN  /\ dpc' = IF leave THEN "done" ELSE "select"
           /\ plast' = Op("shutdown", <<>>, "",
                         [NoResult EXCEPT !.ok = ~is_err,
                                          !.branch = IF leave THEN "break" ELSE "continue"])
    /\ shutdown' = [shutdown EXCEPT !.changed = FALSE]
    /\ UNCHANGED <<disc, denv, dgram, pending, rx_open, timers, discovery_rx>>
    /\ DiscOnly

\* the holder of the shutdown sender sends a value
SetShutdown ==
    /\ dpc # "new" /\ ~shutdown.closed
    /\ \E v \in BOOLEAN :
          /\ shutdown' = Watch(v, TRUE, FALSE)
          /\ plast' = Op("signal", <<>>, "", [NoResult EXCEPT !.ok = v, !.branch = "send"])
    /\ UNCHANGED <<disc, denv, dpc, dgram, pending, rx_open, timers, discovery_rx>>
    /\ DiscOnly

\* the shutdown sender is dropped
DropSender ==
    /\ dpc # "new" /\ ~shutdown.closed
    /\ shutdown' = [shutdown EXCEPT !.closed = TRUE]
    /\ plast' = Op("signal", <<>>, "", [NoResult EXCEPT !.branch = "drop"])
    /\ UNCHANGED <<disc, denv, dpc, dgram, pending, rx_open, timers, discovery_rx>>
    /\ DiscOnly

\* the main loop takes one DiscoveredPeer: discovery_rx.try_recv()
Consume ==
    /\ rx_open /\ discovery_rx # <<>>
    /\ discovery_rx' = Tail(discovery_rx)
    /\ plast' = Op("consume", <<>>, "", NoResult)
    /\ UNCHANGED disc_vars
    /\ DiscOnly

\* the receiver is dropped, and what waits in the channel with it
DropReceiver ==
    /\ dpc # "new" /\ rx_open
    /\ rx_open' = FALSE
    /\ discovery_rx' = <<>>
    /\ plast' = Op("consume", <<>>, "", [NoResult EXCEPT !.branch = "drop"])
    /\ UNCHANGED <<disc, denv, dpc, dgram, pending, shutdown, timers>>
    /\ DiscOnly

\* 100 ms after the start; the next ANNOUNCE_INTERVAL is over
DelayElapses ==
    /\ dpc # "new" /\ ~timers.initial_ready
    /\ timers' = [timers EXCEPT !.initial_ready = TRUE]
    /\ plast' = Op("clock", <<>>, "", [NoResult EXCEPT !.branch = "delay"])
    /\ UNCHANGED <<disc, denv, dpc, dgram, pending, shutdown, rx_open, discovery_rx>>
    /\ DiscOnly

IntervalElapses ==
    /\ dpc # "new" /\ ~timers.tick_due
    /\ timers' = [timers EXCEPT !.tick_due = TRUE]
    /\ plast' = Op("clock", <<>>, "", [NoResult EXCEPT !.branch = "interval"])
    /\ UNCHANGED <<disc, denv, dpc, dgram, pending, shutdown, rx_open, discovery_rx>>
    /\ DiscOnly

DiscNext ==
    \/ DiscoveryNew \/ InitialAnnounce \/ PeriodicAnnounce \/ Receive \/ ReceiveError
    \/ Emit \/ Reply \/ ObserveShutdown
    \/ SetShutdown \/ DropSender \/ Consume \/ DropReceiver \/ DelayElapses \/ IntervalElapses

DiscSpec == DiscInit /\ [][DiscNext]_vars

\* The task is scheduled: a step of a branch that can run does run.  The
\* select! picks among its ready branches at random, so a branch that is
\* ready again and again is taken in the end.  Nothing is assumed of the
\* environment: the main loop need not take anything from the channel.
FairDiscSpec ==
    /\ DiscSpec
    /\ WF_vars(DiscoveryNew) /\ WF_vars(Emit) /\ WF_vars(Reply)
    /\ SF_vars(ObserveShutdown) /\ SF_vars(PeriodicAnnounce) /\ SF_vars(InitialAnnounce)


(***************************************************************************)
(* Claims about discovery *)
(***************************************************************************)
\* the datagram parses as an announce of another node
FromPeer(r) ==
    /\ Len(r.data) > 0
    /\ DiscoveryMessage_from_bytes(r.data) # None
    /\ DiscoveryMessage_from_bytes(r.data).name # NodeName

\* C23: a datagram that parses as an Announce with a name other than the
\* node's own is handled in this order: nothing is sent before the
\* DiscoveredPeer {name, addr = (sender IP, announced port)} has been put on
\* the channel (while the channel has a receiver), and then exactly one
\* Announce of this node goes to (sender IP, 7891), whatever the source port
\* of the datagram was.
C23_EmitThenReply ==
    [][/\ (dpc = "select" /\ plast'.op = "recv" /\ FromPeer(dgram')) =>
              /\ dpc' = "send"
              /\ discovery_rx' = discovery_rx /\ plast'.result.sent = <<>>
       /\ (dpc = "send" /\ dpc' # "send") =>
              LET m == DiscoveryMessage_from_bytes(dgram.data)
              IN  /\ dpc' = "reply" /\ plast'.result.sent = <<>>
                  /\ rx_open =>
                        discovery_rx' =
                            Append(discovery_rx, DiscoveredPeer(m.name, SocketAddr(dgram.ip, m.port)))
       /\ (dpc = "reply" /\ dpc' # "reply") =>
              /\ dpc' = "select" /\ discovery_rx' = discovery_rx
              /\ plast'.result.sent =
                    <<Packet(DiscoveryMessage_to_bytes(DiscoveryMessage(NodeName, OUR_PORT)),
                             SocketAddr(dgram.ip, DISCOVERY_PORT))>>]_vars

\* an announce that came from source port 40000 was put on the channel with
\* the announced port and answered at the discovery port
C23_Witness ==
    /\ plast.op = "reply" /\ dgram.port = 40000
    /\ plast.result.sent[1].to = "192.168.1.10:7891"
    /\ discovery_rx = <<DiscoveredPeer(S_Al, AddrA)>>

\* C24: a datagram that carries the node's own name, or that does not parse
\* as a discovery packet, leaves the loop at its select! with nothing put on
\* the channel and nothing sent; the channel grows, and a reply is sent,
\* only for a datagram that parses as the announce of another node.
C24_OwnAndInvalidIgnored ==
    [][/\ dpc' \in {"send", "reply"} => FromPeer(dgram')
       /\ (dpc = "select" /\ plast'.op = "recv" /\ ~FromPeer(dgram')) =>
              /\ dpc' = "select"
              /\ discovery_rx' = discovery_rx /\ plast'.result.sent = <<>>
       /\ Len(discovery_rx') > Len(discovery_rx) => dpc = "send"
       /\ plast'.op = "reply" => dpc = "reply"]_vars

\* our own broadcast has come back and has been dropped
C24_Witness ==
    /\ plast.op = "recv" /\ plast.result.branch = "own"
    /\ DiscoveryMessage_from_bytes(dgram.data) = DiscoveryMessage(NodeName, OUR_PORT)
    /\ dpc = "select" /\ discovery_rx = <<>>

\* the shutdown signal is true and not yet seen, or its sender is gone
ShutdownRequested == dpc # "new" /\ (shutdown.closed \/ (shutdown.changed /\ shutdown.value))

\* C25: once the shutdown signal is true (or its sender dropped), and for as
\* long as it stays so, run_discovery leaves its loop in the end, wherever it
\* is, also while it delivers a peer to a channel that is full and not
\* drained; seeing the value false does not end the loop.
C25_ShutdownEndsLoop ==
    /\ ShutdownRequested ~> (dpc = "done" \/ ~ShutdownRequested)
    /\ [][(plast'.op = "shutdown" /\ shutdown.changed /\ ~shutdown.value) => dpc' # "done"]_vars

\* C26: handling a datagram never blocks the loop: while it is in the
\* receive branch its next step can be taken, whatever the application has
\* or has not taken from the channel; so a tick of the announce interval
\* that is due is answered by an announce to every broadcast address.
C26_NeverBlocked ==
    /\ dpc \in {"send", "reply"} => ENABLED (Emit \/ Reply)
    /\ (plast.op = "announce") =>
           /\ Len(plast.result.sent) = Len(disc.broadcast_addrs)
           /\ \A i \in 1..Len(plast.result.sent) :
                  plast.result.sent[i].to = SocketAddr(disc.broadcast_addrs[i], DISCOVERY_PORT)

\* the subnet broadcast addresses of the interfaces that count: IPv4, not
\* loopback, and the bind address if one is given
SubnetBroadcasts ==
    LET ifs == IF denv.interfaces = None THEN <<>> ELSE denv.interfaces.v
        counts(i) == /\ ifs[i].v4 /\ ~ifs[i].loopback
                     /\ denv.bind_ip = UNSPECIFIED \/ ifs[i].ip = denv.bind_ip
        subnet(i) == IF ifs[i].broadcast # None THEN ifs[i].broadcast.v
                     ELSE <<ifs[i].ip[1], ifs[i].ip[2], ifs[i].ip[3], 255>>
    IN  {subnet(i) : i \in {j \in 1..Len(ifs) : counts(j)}}

-----------------------------------------------------------------------------
(* Malformed discovery packets, and the two wire formats side by side *)

\* the input is one that DiscoveryMessage::from_bytes has to refuse
DiscoveryMalformed(data) ==
    \/ Len(data) < 11
    \/ SubSeq(data, 1, 8) # MAGIC
    \/ At(data, 10) > Len(data) - 11

\* C31: DiscoveryMessage::from_bytes reads nothing past the end of its input,
\* and returns None for every input that is shorter than 11 bytes, whose first
\* 8 bytes are not the magic, or whose declared name length exceeds the bytes
\* that remain.
C31_MalformedIsNone ==
    cpc \in {"ddecoded", "xddecoded"} =>
        /\ decoded # Panic
        /\ DiscoveryMalformed(bytes) => decoded = None

\* a packet with the magic and a port whose name length byte promises more
\* than what follows was refused
C31_Witness ==
    /\ cpc = "ddecoded"
    /\ Len(bytes) >= 11 /\ SubSeq(bytes, 1, 8) = MAGIC
    /\ At(bytes, 10) > Len(bytes) - 11
    /\ decoded = None

\* C40: no byte string is accepted by both Message::from_bytes and
\* DiscoveryMessage::from_bytes; a discovery packet handed to
\* Message::from_bytes and an application message handed to
\* DiscoveryMessage::from_bytes both decode to None.
C40_FormatsDisjoint ==
    /\ cpc = "xdecoded" =>
          /\ decoded = None \/ DiscoveryMessage_from_bytes(bytes) = None
          /\ bytes = DiscoveryMessage_to_bytes(msg) => decoded = None
    /\ cpc = "xddecoded" =>
          /\ decoded = None \/ from_bytes(bytes) = None
          /\ IsWhole => decoded = None

\* a well-formed discovery packet was handed to Message::from_bytes and dropped
C40_Witness ==
    /\ cpc = "xdecoded"
    /\ bytes = DiscoveryMessage_to_bytes(msg)
    /\ DiscoveryMessage_from_bytes(bytes) \notin {None, Panic}
    /\ decoded = None


-----------------------------------------------------------------------------
(* discover_public_endpoint (src/src/network/stun.rs): one socket, one     *)
(* request per server of STUN_SERVERS, the first usable answer wins.       *)

STUN_SERVERS ==
    <<"stun.l.google.com:19302", "stun1.l.google.com:19302",
      "stun2.l.google.com:19302", "stun.cloudflare.com:3478">>

\* the values rand::random() gives the TransactionId of a request
TransactionIds == {1, 2}

\* the addresses server s puts in its XOR-MAPPED-ADDRESS and MAPPED-ADDRESS
XorMapped(s) == SocketAddr(<<203, 0, 113, s>>, 40000 + s)
Mapped(s) == SocketAddr(<<203, 0, 113, s>>, 50000 + s)

\* what a server can answer: a binding response with either attribute, with
\* both, with neither, or bytes that are no STUN message
ResponseKinds == {"xor", "mapped", "both", "none", "garbage"}
\* a transaction id no request carries
ForeignId == 0
\* at most this many responses are on their way or queued at a time
MaxInFlight == 2
Response(s, tid, kind) == [from |-> s, tid |-> tid, kind |-> kind]

StunOk(addr) == [ok |-> TRUE, v |-> addr]
StunErr(e) == [ok |-> FALSE, v |-> e]

\* try_stun_server from the decoding of the datagram on: decode, compare the
\* transaction id, take XorMappedAddress, else MappedAddress
check_response(r, transaction_id) ==
    IF r.kind = "garbage" THEN StunErr("Failed to decode response")
    ELSE IF r.tid # transaction_id THEN StunErr("Transaction ID mismatch")
    ELSE IF r.kind \in {"xor", "both"} THEN StunOk(XorMapped(r.from))
    ELSE IF r.kind = "mapped" THEN StunOk(Mapped(r.from))
    ELSE StunErr("No mapped address in response")

\* server s answered the request that carried tid with a usable response
GoodResponse(r, s, tid) == r.from = s /\ r.tid = tid /\ r.kind \in {"xor", "mapped", "both"}

StunOnly == UNCHANGED <<codec_vars, send_vars, node_vars, peer_vars, app_vars, disc_vars, pair_vars>>

\* i: the server the loop is at; tid: the transaction id of the request in
\* flight; contacted: the servers a request was sent to, in order; timely:
\* the servers whose usable answer reached the socket while their own
\* try_stun_server call was waiting for it (history, not program state)
StunInit ==
    /\ stun_st = [pc |-> "start", i |-> 1, tid |-> 0, result |-> None,
               contacted |-> <<>>, timely |-> {}, accepted |-> None]
    /\ stun_net = {} /\ stun_sock = <<>>
    /\ IdlePair /\ IdleCodec /\ IdleSend /\ IdleNode /\ IdlePeers

\* UdpSocket::bind and set_read_timeout: either can fail, and ends the call
StunBind ==
    /\ stun_st # None /\ stun_st.pc = "start"
    /\ \E r \in {"ok", "Failed to bind socket", "Failed to set timeout"} :
          stun_st' = IF r = "ok" THEN [stun_st EXCEPT !.pc = "next"]
                  ELSE [stun_st EXCEPT !.pc = "done", !.result = StunErr(r)]
    /\ UNCHANGED <<stun_net, stun_sock>>
    /\ StunOnly

\* try_stun_server: resolve the server's name, draw the transaction id
StunResolve ==
    /\ stun_st # None /\ stun_st.pc = "next" /\ stun_st.i <= Len(STUN_SERVERS)
    /\ \E r \in {"ok", "DNS resolution failed", "No address for STUN server"} :
          IF r = "ok"
          THEN \E t \in TransactionIds : stun_st' = [stun_st EXCEPT !.pc = "send", !.tid = t]
          ELSE stun_st' = [stun_st EXCEPT !.i = @ + 1]
    /\ UNCHANGED <<stun_net, stun_sock>>
    /\ StunOnly

\* try_stun_server: socket.send_to; the server answers or does not
StunSend ==
    /\ stun_st # None /\ stun_st.pc = "send"
    /\ \E ok \in BOOLEAN :
          IF ok
          THEN /\ stun_st' = [stun_st EXCEPT !.pc = "recv", !.contacted = Append(@, stun_st.i)]
               /\ \/ UNCHANGED stun_net
                  \/ /\ Cardinality(stun_net) + Len(stun_sock) < MaxInFlight
                     /\ \E k \in ResponseKinds, t \in {stun_st.tid, ForeignId} :
                           /\ k = "garbage" => t = ForeignId
                           /\ stun_net' = stun_net \cup {Response(stun_st.i, t, k)}
          ELSE /\ stun_st' = [stun_st EXCEPT !.pc = "next", !.i = @ + 1, !.contacted = Append(@, stun_st.i)]
               /\ UNCHANGED stun_net
    /\ UNCHANGED stun_sock
    /\ StunOnly

\* a response reaches the socket, whatever the call is doing
StunArrive ==
    /\ stun_st # None /\ stun_st.pc \in {"next", "send", "recv"}
    /\ \E r \in stun_net :
          /\ stun_net' = stun_net \ {r}
          /\ stun_sock' = Append(stun_sock, r)
          /\ stun_st' = IF stun_st.pc = "recv" /\ GoodResponse(r, stun_st.i, stun_st.tid)
                     THEN [stun_st EXCEPT !.timely = @ \cup {stun_st.i}]
                     ELSE stun_st
    /\ StunOnly

\* try_stun_server: socket.recv_from returns the next datagram of the socket
StunRecv ==
    /\ stun_st # None /\ stun_st.pc = "recv" /\ stun_sock # <<>>
    /\ LET r == Head(stun_sock)
           res == check_response(r, stun_st.tid)
       IN  /\ stun_sock' = Tail(stun_sock)
           /\ stun_st' = IF res.ok
                      THEN [stun_st EXCEPT !.pc = "done", !.result = res, !.accepted = r]
                      ELSE [stun_st EXCEPT !.pc = "next", !.i = @ + 1]
    /\ UNCHANGED stun_net
    /\ StunOnly

\* try_stun_server: socket.recv_from gives up after the read timeout
StunTimeout ==
    /\ stun_st # None /\ stun_st.pc = "recv" /\ stun_sock = <<>>
    /\ stun_st' = [stun_st EXCEPT !.pc = "next", !.i = @ + 1]
    /\ UNCHANGED <<stun_net, stun_sock>>
    /\ StunOnly

\* discover_public_endpoint: the loop ran out of servers
StunAllFailed ==
    /\ stun_st # None /\ stun_st.pc = "next" /\ stun_st.i > Len(STUN_SERVERS)
    /\ stun_st' = [stun_st EXCEPT !.pc = "done", !.result = StunErr("All STUN servers failed")]
    /\ UNCHANGED <<stun_net, stun_sock>>
    /\ StunOnly

StunNext ==
    \/ StunBind \/ StunResolve \/ StunSend \/ StunArrive
    \/ StunRecv \/ StunTimeout \/ StunAllFailed

StunSpec == StunInit /\ [][StunNext]_vars

\* the servers contacted are in list order, each at most once
InListOrder(c) == \A a, b \in 1..Len(c) : a < b => c[a] < c[b]

\* C32: discover_public_endpoint contacts the servers in list order; it
\* returns the address from the first server whose response is usable and
\* carries the transaction id of the request sent to that server, and never
\* accepts a response with another transaction id; it contacts no server
\* after a success; it returns an error only when every server has failed.
\* (So the loop never moves past a server whose usable response, carrying the
\* id of its request, reached the socket while that server's attempt waited.)
C32_FirstGoodServerWins ==
    /\ stun_st.contacted # <<>> => InListOrder(stun_st.contacted)
    /\ \A j \in stun_st.timely : stun_st.i <= j
    /\ stun_st.pc = "done" =>
          /\ stun_st.result.ok =>
                /\ stun_st.accepted.tid = stun_st.tid
                /\ stun_st.contacted # <<>> /\ stun_st.contacted[Len(stun_st.contacted)] = stun_st.i
          /\ ~stun_st.result.ok => stun_st.timely = {}

\* the parts that hold: list order, no acceptance of another transaction id,
\* no request after a success, the aggregate error only after the last server
C32_OrderAndIds ==
    /\ stun_st.contacted # <<>> => InListOrder(stun_st.contacted)
    /\ stun_st.pc = "done" /\ stun_st.result.ok =>
          /\ stun_st.accepted.tid = stun_st.tid
          /\ stun_st.contacted[Len(stun_st.contacted)] = stun_st.i
          /\ ~ENABLED StunNext
    /\ stun_st.pc = "done" /\ ~stun_st.result.ok /\ stun_st.result.v = "All STUN servers failed" =>
          stun_st.i = Len(STUN_SERVERS) + 1


-----------------------------------------------------------------------------
(* The liveness boundary of the peer table, a failed connect, and what a   *)
(* prune leaves behind                                                     *)

\* C37: for every peer of the table, every timeout and every instant, exactly
\* one holds: has_peer(addr, timeout) is true, or prune_peers(timeout) at that
\* instant removes the peer; right after prune_peers(timeout) every peer left
\* in the table satisfies has_peer(addr, timeout).
C37_SameBoundary ==
    /\ \A i \in 1..Len(node.peers), timeout \in Timeouts \cup {0, PEER_TIMEOUT} :
          LET addr == node.peers[i].addr
              r == prune_peers(node, timeout, now)
          IN  /\ has_peer(node, addr, timeout, now) <=> addr \notin Addrs(r.pruned)
              /\ has_peer(node, addr, timeout, now) <=> addr \in Addrs(r.node.peers)
    /\ (plast # NoMsg /\ plast.op = "prune_peers") =>
          \A i \in 1..Len(node.peers) :
              has_peer(node, node.peers[i].addr, plast.result.timeout, plast.at)

\* a prune removed the peer whose age was exactly the timeout and left the
\* younger one, which has_peer reports alive
C37_Witness ==
    /\ plast # NoMsg /\ plast.op = "prune_peers" /\ plast.at = now
    /\ Len(plast.result.pruned) = 1
    /\ now - plast.result.pruned[1].last_seen = plast.result.timeout
    /\ Len(node.peers) = 1
    /\ has_peer(node, node.peers[1].addr, plast.result.timeout, now)
    /\ ~has_peer(node, plast.result.pruned[1].addr, plast.result.timeout, now)


\* C38: when the send of the Join fails, connect_to_peer returns the error and
\* leaves the peer table, known_addrs and the recently-left map as they were;
\* the table or known_addrs change only in a call whose send succeeded.
C38_FailedConnectChangesNothing ==
    [][plast'.op = "connect_to_peer" =>
          /\ ~plast'.result.ok =>
                /\ node'.peers = node.peers
                /\ node'.known_addrs = node.known_addrs
                /\ node'.recently_left = node.recently_left
                /\ plast'.result.sent = <<>>
          /\ (node'.peers # node.peers \/ node'.known_addrs # node.known_addrs) =>
                /\ plast'.result.ok
                /\ plast'.result.sent = <<Datagram(Join(node.name), plast'.addr)>>
          /\ (plast'.result.ok /\ ~IsSelf(node, plast'.addr)) =>
                /\ plast'.addr \in Addrs(node'.peers)
                /\ knows_peer(node', plast'.addr)]_vars

\* a connect to an address never seen before failed: the address is neither
\* in the table nor known
C38_Witness ==
    /\ plast # NoMsg /\ plast.op = "connect_to_peer" /\ ~plast.result.ok
    /\ plast.addr = AddrA
    /\ AddrA \notin Addrs(node.peers)
    /\ ~knows_peer(node, AddrA)
    /\ Len(node.peers) = 1


\* C39: prune_peers changes nothing of the node but the peer table: known_addrs
\* and the recently-left map stay as they were.  A peer it removes is still
\* known and not in the grace period that follows a Leave, so the next
\* DiscoveredPeer for its address goes to connect_to_peer, which sends the
\* Join and puts the address back in the table.
C39_PruneOnlyPeers ==
    [][/\ plast'.op = "prune_peers" =>
             /\ node' = [node EXCEPT !.peers = node'.peers]
             /\ Addrs(node'.peers) \subseteq Addrs(node.peers)
             /\ \A i \in 1..Len(plast'.result.pruned) :
                   LET a == plast'.result.pruned[i].addr
                       r == handle_discovered(node', DiscoveredPeer(S_Al, a), now, TRUE)
                   IN  /\ a \notin Addrs(node'.peers)
                       /\ knows_peer(node', a)
                       /\ ~recently_left(node', a, now).result
                       /\ r.branch = "reconnect"
                       /\ r.sent = <<Datagram(Join(NodeName), a)>>
                       /\ a \in Addrs(r.node.peers)
       /\ (/\ plast'.op = "discovered" /\ now' = now
           /\ knows_peer(node, plast'.addr)
           /\ plast'.addr \notin Addrs(node.peers)
           /\ ~recently_left(node, plast'.addr, now).result) =>
             /\ plast'.result.branch \in {"reconnect", "failed"}
             /\ plast'.result.branch = "reconnect" =>
                   /\ plast'.result.sent = <<Datagram(Join(NodeName), plast'.addr)>>
                   /\ plast'.addr \in Addrs(node'.peers)]_vars

\* both peers timed out and were pruned; neither ever sent a Leave; the next
\* announcement of one of them reconnected it
C39_Witness ==
    /\ plast.op = "discovered" /\ plast.result.branch = "reconnect" /\ plast.addr = AddrA
    /\ now = PEER_TIMEOUT
    /\ DOMAIN hist.left_at = {}
    /\ AddrB \in node.known_addrs /\ AddrB \notin Addrs(node.peers)
    /\ Len(node.peers) = 1 /\ node.peers[1].addr = AddrA /\ node.peers[1].last_seen = now


-----------------------------------------------------------------------------
(* Two nodes running run_discovery on one network.  One of them sends an   *)
(* announce; every datagram either reaches the discovery socket it is      *)
(* addressed to or is lost.  No interval tick falls into the exchange.     *)

\* a node stops after this many unicast announces
MaxReplies == 3

PairNodes == {1, 2}
Eth1 == Interface(TRUE, PeerIp, FALSE, Some(<<192, 168, 1, 255>>))
PairIp(n) == IF n = 1 THEN Eth0.ip ELSE Eth1.ip

\* a datagram on its way: the bytes, the node that sent it, the node whose
\* discovery socket it will reach
Flight(data, src, dst) == [data |-> data, src |-> src, dst |-> dst]

\* the sockets a packet sent by node src reaches: the one bound at the
\* destination address, every one for a broadcast, its own for the loopback
Reaches(pkt, src) ==
    {n \in PairNodes :
        \/ pkt.to = SocketAddr(PairIp(n), DISCOVERY_PORT)
        \/ pkt.to \in {SocketAddr(<<192, 168, 1, 255>>, DISCOVERY_PORT),
                       SocketAddr(BROADCAST, DISCOVERY_PORT)}
        \/ pkt.to = SocketAddr(LOCALHOST, DISCOVERY_PORT) /\ n = src}

Flights(pkts, src) ==
    UNION {{Flight(pkts[i].data, src, n) : n \in Reaches(pkts[i], src)} : i \in 1..Len(pkts)}

PairOnly ==
    UNCHANGED <<codec_vars, send_vars, node_vars, peer_vars, app_vars, disc_vars, stun_vars>>

\* disc: each node's Discovery; emitted: the DiscoveredPeers each node has
\* sent to its channel; unicasts: the announce_to calls of each node; late:
\* the announce_to calls made after both nodes had emitted the other; lost:
\* a datagram was lost (emitted, unicasts, late and lost are history)
PairInit ==
    /\ \E name2 \in {S_Al, S_Bob}, port2 \in {OUR_PORT, 7900},
          ifs1 \in {Some(<<Lo, Eth0>>), Some(<<Eth0, Tun>>)}, first \in PairNodes :
          pair_st = [disc |-> [n \in PairNodes |->
                                  IF n = 1 THEN Discovery_new(NodeName, OUR_PORT, ifs1, UNSPECIFIED)
                                  ELSE Discovery_new(name2, port2, Some(<<Lo, Eth1>>), UNSPECIFIED)],
                     emitted |-> [n \in PairNodes |-> <<>>],
                     unicasts |-> [n \in PairNodes |-> 0],
                     late |-> 0, lost |-> FALSE, pc |-> "start", first |-> first]
    /\ pair_wire = {}
    /\ IdleStun /\ IdleCodec /\ IdleSend /\ IdleNode /\ IdlePeers

\* the one announce: discovery.announce() of the node that starts
PairAnnounce ==
    /\ pair_st # None /\ pair_st.pc = "start"
    /\ pair_wire' = Flights(announce(pair_st.disc[pair_st.first]), pair_st.first)
    /\ pair_st' = [pair_st EXCEPT !.pc = "run"]
    /\ PairOnly

\* run_discovery of node f.dst, receive branch: recv_from, from_bytes, the
\* comparison with our own name, peer_tx.send, announce_to
PairReceive ==
    /\ pair_st # None /\ pair_st.pc = "run"
    /\ \E f \in pair_wire :
          LET n == f.dst
              d == pair_st.disc[n]
              h == on_datagram(d, Received(f.data, PairIp(f.src), DISCOVERY_PORT))
              done == \A k \in PairNodes : pair_st.emitted[k] # <<>>
          IN  IF h.branch = "peer"
              THEN /\ pair_st.unicasts[n] < MaxReplies
                   /\ pair_wire' = (pair_wire \ {f}) \cup Flights(announce_to(d, h.reply_addr), n)
                   /\ pair_st' = [pair_st EXCEPT !.emitted[n] = Append(@, h.peer),
                                                 !.unicasts[n] = @ + 1,
                                                 !.late = IF done THEN 1 ELSE @]
              ELSE /\ pair_wire' = pair_wire \ {f}
                   /\ UNCHANGED pair_st
    /\ PairOnly

\* UDP: a datagram is lost
PairLose ==
    /\ pair_st # None /\ pair_st.pc = "run"
    /\ \E f \in pair_wire : pair_wire' = pair_wire \ {f}
    /\ pair_st' = [pair_st EXCEPT !.lost = TRUE]
    /\ PairOnly

PairNext == PairAnnounce \/ PairReceive \/ PairLose

PairSpec == PairInit /\ [][PairNext]_vars

\* C34: between two discovery nodes with different names one announce starts
\* a bounded exchange: after one round trip each node has emitted a
\* DiscoveredPeer for the other, and from then on neither node sends another
\* unicast announce (no interval tick falls into the exchange).
C34_BoundedExchange ==
    /\ (pair_wire = {} /\ pair_st.pc = "run" /\ ~pair_st.lost) =>
          \A n \in PairNodes : pair_st.emitted[n] # <<>>
    /\ pair_st.late = 0

=============================================================================
